---------------------------- MODULE Spec2Model ----------------------------
(***************************************************************************)
(* Model of the modular-equations library: the arithmetic kernel           *)
(* (src/src/arith/mod.rs), the primality oracle (src/src/prime/mod.rs),    *)
(* the linear and quadratic solvers (src/src/lin/mod.rs,                   *)
(* src/src/quad/mod.rs) and the factor engine with its worker race         *)
(* (src/src/factor/mod.rs).                                                *)
(*                                                                         *)
(* The library is generic over an unsigned integer type T.  Every operator *)
(* that is generic in the source takes the type T (a record UInt(bits)) as *)
(* its first parameter; raw +, - and * of the source wrap modulo 2^T.bits. *)
(* A value of a type of at most LimbBits bits is an integer; a value of a  *)
(* wider type is the sequence of its digits of LimbBits bits, least        *)
(* significant first and without leading zero digits, so that u32, u64 and *)
(* u128 arithmetic is exact.                                               *)
(* An Option<..> of the source is a record [tag, val] with tag "None" or   *)
(* "Some"; a panic of the source (division by zero, an explicit panic!) is *)
(* the tag "Panic".                                                        *)
(***************************************************************************)
EXTENDS Integers, Sequences, FiniteSets, TLC

-----------------------------------------------------------------------------
(* Digit sequences: exact arithmetic on natural numbers of any size.       *)

RECURSIVE Pow(_, _)
Pow(b, e) == IF e = 0 THEN 1 ELSE b * Pow(b, e - 1)

\* F on given values: a let-binding of local variables, whose values are
\* computed before F as the code computes a local before it goes on
Forced(v) == Len(<<v>>) = 1
With(v, F(_)) == CASE Forced(v) -> F(v)
With2(v, w, F(_, _)) == CASE Forced(<<v, w>>) -> F(v, w)
With3(u, v, w, F(_, _, _)) == CASE Forced(<<u, v, w>>) -> F(u, v, w)

\* A loop of the source: the state after the iterations of Step, up to the
\* first state that is Done.  The state is computed at the head of every
\* iteration, and four iterations are taken at a time.
Once(Done(_), Step(_), s) == IF Done(s) THEN s ELSE Step(s)
RECURSIVE While(_, _, _)
While(Done(_), Step(_), s) ==
    IF Forced(s) /\ Done(s) THEN s
    ELSE While(Done, Step, Once(Done, Step, Once(Done, Step, Once(Done, Step, Step(s)))))

Min(x, y) == IF x < y THEN x ELSE y
Max(x, y) == IF x < y THEN y ELSE x

\* the width of a digit in bits
LimbBits == 14
LimbBase == Pow(2, LimbBits)

\* the digit sequence of the integer n
W(n) ==
    IF n = 0 THEN <<>>
    ELSE IF n < LimbBase THEN <<n>>
    ELSE IF n \div LimbBase < LimbBase THEN <<n % LimbBase, n \div LimbBase>>
    ELSE <<n % LimbBase, (n \div LimbBase) % LimbBase, (n \div LimbBase) \div LimbBase>>

\* numbers of at most two digits are computed on as integers
WSmall(x) == Len(x) <= 2

WVal(x) ==
    IF Len(x) = 0 THEN 0
    ELSE IF Len(x) = 1 THEN x[1]
    ELSE x[1] + LimbBase * x[2]

Limb(x, i) == IF i <= Len(x) THEN x[i] ELSE 0

\* x without its leading zero digits
WNorm(x) ==
    SubSeq(x, 1, Cardinality({i \in 1..Len(x) : \E j \in i..Len(x) : x[j] # 0}))

WLt(x, y) ==
    IF Len(x) # Len(y) THEN Len(x) < Len(y)
    ELSE \E i \in 1..Len(x) : x[i] < y[i] /\ \A j \in (i + 1)..Len(x) : x[j] = y[j]

\* The loops over the digits carry their result so far in acc, computed
\* before the next digit is looked at.
RECURSIVE WAddLoop(_, _, _, _, _)
WAddLoop(x, y, i, carry, acc) ==
    IF Forced(<<carry, acc>>) /\ i > Len(x) /\ i > Len(y)
    THEN IF carry = 0 THEN acc ELSE Append(acc, carry)
    ELSE WAddLoop(x, y, i + 1, (Limb(x, i) + Limb(y, i) + carry) \div LimbBase,
                  Append(acc, (Limb(x, i) + Limb(y, i) + carry) % LimbBase))

WAdd(x, y) ==
    IF WSmall(x) /\ WSmall(y) THEN W(WVal(x) + WVal(y)) ELSE WAddLoop(x, y, 1, 0, <<>>)

\* x - y for x >= y
RECURSIVE WSubLoop(_, _, _, _, _)
WSubLoop(x, y, i, borrow, acc) ==
    IF Forced(<<borrow, acc>>) /\ i > Len(x) THEN acc
    ELSE WSubLoop(x, y, i + 1, IF x[i] - Limb(y, i) - borrow < 0 THEN 1 ELSE 0,
                  Append(acc, (x[i] - Limb(y, i) - borrow) % LimbBase))

WSub(x, y) ==
    IF WSmall(x) /\ WSmall(y) THEN W(WVal(x) - WVal(y))
    ELSE WNorm(WSubLoop(x, y, 1, 0, <<>>))

\* x times the digit d > 0
RECURSIVE WMulLimb(_, _, _, _, _)
WMulLimb(x, d, i, carry, acc) ==
    IF Forced(<<carry, acc>>) /\ i > Len(x)
    THEN IF carry = 0 THEN acc ELSE Append(acc, carry)
    ELSE WMulLimb(x, d, i + 1, (x[i] * d + carry) \div LimbBase,
                  Append(acc, (x[i] * d + carry) % LimbBase))

WMulSmall(x, d) == IF d = 0 THEN <<>> ELSE WMulLimb(x, d, 1, 0, <<>>)

\* x times LimbBase^k
WShiftLimb(x, k) == IF x = <<>> THEN x ELSE [i \in 1..k |-> 0] \o x

RECURSIVE WMulLoop(_, _, _, _)
WMulLoop(x, y, j, acc) ==
    IF Forced(acc) /\ j > Len(y) THEN acc
    ELSE WMulLoop(x, y, j + 1, WAdd(acc, WShiftLimb(WMulSmall(x, y[j]), j - 1)))

WMul(x, y) ==
    IF Len(x) <= 1 /\ Len(y) <= 1 THEN W(WVal(x) * WVal(y)) ELSE WMulLoop(x, y, 1, <<>>)

\* <<quotient, remainder>> of x by a single digit d > 0, from digit i down
RECURSIVE WDivSmallLoop(_, _, _, _, _)
WDivSmallLoop(x, d, i, r, acc) ==
    IF Forced(<<r, acc>>) /\ i = 0 THEN <<acc, r>>
    ELSE WDivSmallLoop(x, d, i - 1, (r * LimbBase + x[i]) % d,
                       <<(r * LimbBase + x[i]) \div d>> \o acc)

WDivSmall(x, d) ==
    LET qr == WDivSmallLoop(x, d, Len(x), 0, <<>>)
    IN  <<WNorm(qr[1]), qr[2]>>

\* the largest q <= qhat with q * y <= r
RECURSIVE WDigitFix(_, _, _)
WDigitFix(r, y, qhat) ==
    IF WLt(r, WMulSmall(y, qhat)) THEN WDigitFix(r, y, qhat - 1) ELSE qhat

\* one digit of the long division of cur by y: <<digit, remainder>>
WDivStep(y, cur) ==
    LET q == WDigitFix(cur, y,
                       Min(LimbBase - 1,
                           (Limb(cur, Len(y) + 1) * LimbBase + Limb(cur, Len(y)))
                               \div y[Len(y)]))
    IN  <<q, WSub(cur, WMulSmall(y, q))>>

\* long division of x by y, whose leading digit is at least LimbBase / 2, from
\* digit i of x down; qr is <<the digits of the quotient so far, the remainder
\* of the digits above i>>
RECURSIVE WDivLongLoop(_, _, _, _)
WDivLongLoop(x, y, i, qr) ==
    IF Forced(qr) /\ i = 0 THEN qr
    ELSE WDivLongLoop(x, y, i - 1,
                      LET s == WDivStep(y, WNorm(<<x[i]>> \o qr[2]))
                      IN  <<(<<s[1]>> \o qr[1]), s[2]>>)

\* <<quotient, remainder>> of x by y > 0
WDivMod(x, y) ==
    IF WSmall(x) /\ WSmall(y) THEN <<W(WVal(x) \div WVal(y)), W(WVal(x) % WVal(y))>>
    ELSE IF WLt(x, y) THEN <<<<>>, x>>
    ELSE IF Len(y) = 1
    THEN LET qr == WDivSmall(x, y[1]) IN <<qr[1], W(qr[2])>>
    ELSE LET f == LimbBase \div (y[Len(y)] + 1)
             xn == WMulSmall(x, f)
             qr == WDivLongLoop(xn, WMulSmall(y, f), Len(xn), <<<<>>, <<>>>>)
         IN  <<WNorm(qr[1]), WDivSmall(qr[2], f)[1]>>

\* 2^k
WTwoPow(k) ==
    [i \in 1..(k \div LimbBits + 1) |->
        IF i = k \div LimbBits + 1 THEN Pow(2, k % LimbBits) ELSE 0]

\* x mod 2^k
WTrunc(x, k) ==
    IF Len(x) <= k \div LimbBits THEN x
    ELSE WNorm(SubSeq(x, 1, k \div LimbBits)
               \o <<x[k \div LimbBits + 1] % Pow(2, k % LimbBits)>>)

\* floor of the square root: Newton's iteration from a power of two above
\* it; y is the iterate after x
RECURSIVE WNewtonLoop(_, _, _)
WNewtonLoop(n, x, y) ==
    IF Forced(y) /\ WLt(y, x)
    THEN WNewtonLoop(n, y, WDivMod(WAdd(y, WDivMod(n, y)[1]), <<2>>)[1])
    ELSE x

WSqrt(n) ==
    IF n = <<>> THEN n
    ELSE LET x == WTwoPow((LimbBits * Len(n) + 1) \div 2)
         IN  WNewtonLoop(n, x, WDivMod(WAdd(x, WDivMod(n, x)[1]), <<2>>)[1])

\* number of trailing zero bits of x > 0
RECURSIVE WTzLoop(_, _)
WTzLoop(x, i) ==
    IF x[i] = 0 THEN LimbBits + WTzLoop(x, i + 1)
    ELSE CHOOSE n \in 0..(LimbBits - 1) : x[i] % Pow(2, n + 1) = Pow(2, n)

-----------------------------------------------------------------------------
(* Integer types and the primitive operations of the source language.      *)

\* The widths of the types: u8 / i8, the "small type" of the unit tests.
U8 == 8

\* u32, the type at which is_odd_prime runs Miller-Rabin for num <= u32::MAX.
U32 == 32

\* u64, the type at which it runs Miller-Rabin for larger num
U64 == 64

\* The digit-sequence arithmetic, as functions.
DigitSeq == Seq(Nat)
Digits ==
    [of      |-> [n \in Int |-> W(n)],
     val     |-> [x \in DigitSeq |-> WVal(x)],
     lt      |-> [x \in DigitSeq, y \in DigitSeq |-> WLt(x, y)],
     add     |-> [x \in DigitSeq, y \in DigitSeq |-> WAdd(x, y)],
     sub     |-> [x \in DigitSeq, y \in DigitSeq |-> WSub(x, y)],
     mul     |-> [x \in DigitSeq, y \in DigitSeq |-> WMul(x, y)],
     div_rem |-> [x \in DigitSeq, y \in DigitSeq |-> WDivMod(x, y)],
     two_pow |-> [k \in Nat |-> WTwoPow(k)],
     trunc   |-> [x \in DigitSeq, k \in Nat |-> WTrunc(x, k)],
     sqrt    |-> [x \in DigitSeq |-> WSqrt(x)],
     trailing_zeros |-> [x \in DigitSeq |-> WTzLoop(x, 1)]]

\* An unsigned integer type of the source (a type with the trait UInt): its
\* width in bits, and the digit-sequence arithmetic W that the values of the
\* wide types are computed with.  The type parameter T of every operator
\* below is such a record.
UInt(bits) == [bits |-> bits, W |-> Digits]

\* the unsigned type of the given width, next to the type T
UIntOf(T, bits) == [T EXCEPT !.bits = bits]

\* The types whose values are integers: those of at most one digit's width.
Native(T) == T.bits <= LimbBits

\* the literal n, or a value n converted by into(), in type T
lit(T, n) == IF Native(T) THEN n ELSE T.W.of[n]

\* the integer a value of type T stands for, where that is below 2^30
val(T, x) == IF Native(T) THEN x ELSE T.W.val[x]

\* Two's complement wrapping of a raw arithmetic result of type T.
Wrap(T, v) == IF Native(T) THEN v % Pow(2, T.bits) ELSE T.W.trunc[v, T.bits]

\* T::max_value()
MaxValue(T) ==
    IF Native(T) THEN Pow(2, T.bits) - 1 ELSE T.W.sub[T.W.two_pow[T.bits], <<1>>]

\* S::min_value() of the signed type with the width of T
MinValue(T) == 0 - Pow(2, T.bits - 1)

\* S::max_value() of the signed type with the width of T
MaxSigned(T) == Pow(2, T.bits - 1) - 1

\* x < y, x <= y
lt(T, x, y) == IF Native(T) THEN x < y ELSE T.W.lt[x, y]
le(T, x, y) == ~lt(T, y, x)

min(T, x, y) == IF lt(T, x, y) THEN x ELSE y
max(T, x, y) == IF lt(T, x, y) THEN y ELSE x

\* raw x + y, x - y, x * y
add(T, x, y) == IF Native(T) THEN Wrap(T, x + y) ELSE Wrap(T, T.W.add[x, y])

sub(T, x, y) ==
    IF Native(T) THEN Wrap(T, x - y)
    ELSE IF T.W.lt[x, y] THEN T.W.sub[T.W.add[x, T.W.two_pow[T.bits]], y]
    ELSE T.W.sub[x, y]

mul(T, x, y) == IF Native(T) THEN Wrap(T, x * y) ELSE Wrap(T, T.W.mul[x, y])

\* x / y and x % y for y > 0
div(T, x, y) == IF Native(T) THEN x \div y ELSE T.W.div_rem[x, y][1]
rem(T, x, y) == IF Native(T) THEN x % y ELSE T.W.div_rem[x, y][2]

\* x & 1 == 1
is_odd(T, x) == IF Native(T) THEN x % 2 = 1 ELSE x # <<>> /\ x[1] % 2 = 1

\* x.trailing_zeros() for a value of type T (the width for x = 0)
trailing_zeros(T, x) ==
    IF x = lit(T, 0) THEN T.bits
    ELSE IF Native(T) THEN T.W.trailing_zeros[<<x>>]
    ELSE T.W.trailing_zeros[x]

\* x.unsigned_shr(s) and x.unsigned_shl(s); the shift amount is taken modulo
\* the width, as the release build does (no call of the source shifts by the
\* width or more).
unsigned_shr(T, x, s) ==
    IF Native(T) THEN x \div Pow(2, s % T.bits)
    ELSE T.W.div_rem[x, T.W.two_pow[s % T.bits]][1]

unsigned_shl(T, x, s) ==
    IF Native(T) THEN Wrap(T, x * Pow(2, s % T.bits))
    ELSE Wrap(T, T.W.mul[x, T.W.two_pow[s % T.bits]])

\* num::integer::sqrt
isqrt(T, x) == IF Native(T) THEN T.W.val[T.W.sqrt[T.W.of[x]]] ELSE T.W.sqrt[x]

\* T::pow
RECURSIVE pow(_, _, _)
pow(T, b, e) == IF e = 0 THEN lit(T, 1) ELSE mul(T, b, pow(T, b, e - 1))

\* num::iter::range_step(start, stop, step): start, start + step, ... while
\* the value is below stop.  The iterator also ends when start + step
\* overflows T (checked_add); as stop <= MaxValue(T), the values below stop
\* are exactly the values it yields.
range_step(T, start, stop, step) ==
    IF le(T, stop, start) THEN <<>>
    ELSE LET count == val(T, div(T, sub(T, sub(T, stop, start), lit(T, 1)), step)) + 1
         IN  [i \in 1..count |-> add(T, start, mul(T, lit(T, i - 1), step))]

\* Vec::sort on a vector of T
sort(T, s) == SortSeq(s, LAMBDA x, y : lt(T, x, y))

\* the concatenation of the sequences ss[lo], ..., ss[hi]
RECURSIVE concat_range(_, _, _)
concat_range(ss, lo, hi) ==
    IF lo > hi THEN <<>>
    ELSE IF lo = hi THEN ss[lo]
    ELSE LET mid == (lo + hi) \div 2
         IN  concat_range(ss, lo, mid) \o concat_range(ss, mid + 1, hi)

\* the values pushed by a loop whose i-th iteration pushes ss[i]
concat(ss) == concat_range(ss, 1, Len(ss))

Range(s) == {s[i] : i \in 1..Len(s)}

\* Evaluates v where it stands.  An argument of an operator is otherwise
\* evaluated where it is first used; the loops below evaluate their
\* variables at the head of every iteration, as the source does.
Strict(v) == v = v

None == [tag |-> "None", val |-> <<>>]
Some(v) == [tag |-> "Some", val |-> v]
Panic == [tag |-> "Panic", val |-> <<>>]
Pending == [tag |-> "Pending", val |-> <<>>]

\* u128, the type of the exponents of exp_mod_unsafe_u128 and of the
\* arguments of largest_common_dividing_power_of_two
U128 == 128

\* x.into() / x.try_into().unwrap() from type T to a type T2 that holds x
into(T, T2, x) ==
    IF Native(T) = Native(T2) THEN x
    ELSE IF Native(T) THEN T.W.of[x]
    ELSE T.W.val[x]
-----------------------------------------------------------------------------
(* CoreArith and Arith: src/src/arith/mod.rs                               *)

\* x + y reduced after the addition
add_mod_unsafe_wrapping(T, x, y, modu) == rem(T, add(T, x, y), modu)

add_mod_unsafe(T, x, y, modu) ==
    IF lt(T, x, sub(T, modu, y))
    THEN add(T, x, y)
    ELSE sub(T, min(T, x, y), sub(T, modu, max(T, x, y)))

sub_mod_unsafe(T, x, y, modu) ==
    IF le(T, y, x) THEN sub(T, x, y) ELSE sub(T, modu, sub(T, y, x))

\* while y > 0 { .. }
mult_mod_loop(T, x, y, modu, res) ==
    While(LAMBDA s : ~lt(T, lit(T, 0), s.y),
          LAMBDA s : [x |-> add_mod_unsafe(T, s.x, s.x, modu),
                      y |-> unsigned_shr(T, s.y, 1),
                      res |-> IF is_odd(T, s.y) THEN add_mod_unsafe(T, s.res, s.x, modu)
                              ELSE s.res],
          [x |-> x, y |-> y, res |-> res]).res

\* For operands below modu every add_mod_unsafe of the loop is exact, and the
\* loop ends with the remainder of the full product: on a digit sequence that
\* remainder is computed from the product itself.
mult_mod_unsafe(T, x, y, modu) ==
    IF ~Native(T) /\ lt(T, x, modu) /\ lt(T, y, modu)
    THEN T.W.div_rem[T.W.mul[x, y], modu][2]
    ELSE mult_mod_loop(T, x, y, modu, lit(T, 0))

\* the loop of exp_mod_unsafe and of exp_mod_unsafe_u128, whose exponent is
\* of type E
exp_mod_loop(T, E, base, ex, modu, res) ==
    While(LAMBDA s : ~lt(E, lit(E, 0), s.ex),
          LAMBDA s : [base |-> mult_mod_unsafe(T, s.base, s.base, modu),
                      ex |-> unsigned_shr(E, s.ex, 1),
                      res |-> IF is_odd(E, s.ex) THEN mult_mod_unsafe(T, s.res, s.base, modu)
                              ELSE s.res],
          [base |-> base, ex |-> ex, res |-> res]).res

exp_mod_unsafe(T, base, ex, modu) == exp_mod_loop(T, T, base, ex, modu, lit(T, 1))

exp_mod_unsafe_u128(T, base, ex, modu) ==
    exp_mod_loop(T, UIntOf(T, U128), base, ex, modu, lit(T, 1))

add_mod(T, x, y, modu) ==
    IF lt(T, x, modu) /\ lt(T, y, modu)
    THEN add_mod_unsafe(T, x, y, modu)
    ELSE add_mod_unsafe(T, rem(T, x, modu), rem(T, y, modu), modu)

sub_mod(T, x, y, modu) ==
    IF lt(T, x, modu) /\ lt(T, y, modu)
    THEN sub_mod_unsafe(T, x, y, modu)
    ELSE sub_mod_unsafe(T, rem(T, x, modu), rem(T, y, modu), modu)

mult_mod(T, x, y, modu) ==
    IF lt(T, x, modu) /\ lt(T, y, modu)
    THEN mult_mod_unsafe(T, x, y, modu)
    ELSE mult_mod_unsafe(T, rem(T, x, modu), rem(T, y, modu), modu)

exp_mod(T, base, ex, modu) ==
    IF lt(T, base, modu)
    THEN exp_mod_unsafe(T, base, ex, modu)
    ELSE exp_mod_unsafe(T, rem(T, base, modu), ex, modu)

\* x.signed_shr(s): the shift of the signed type of the same width, which
\* copies the most significant bit of x into the s places it frees
signed_shr(T, x, s) ==
    IF lt(T, unsigned_shr(T, MaxValue(T), 1), x)
    THEN add(T, unsigned_shr(T, x, s),
             sub(T, MaxValue(T), unsigned_shr(T, MaxValue(T), s)))
    ELSE unsigned_shr(T, x, s)

\* while x & 1 == 0 { x = x.signed_shr(1); .. } of jacobi_symbol; n & 7 is
\* n % 8
jacobi_halve(T, s) ==
    While(LAMBDA h : is_odd(T, h.x),
          LAMBDA h : [x |-> signed_shr(T, h.x, 1),
                      n |-> h.n,
                      par_t |-> IF rem(T, h.n, lit(T, 8)) \in {lit(T, 3), lit(T, 5)}
                                THEN 0 - h.par_t ELSE h.par_t],
          s)

\* one iteration of the outer loop of jacobi_symbol: after the swap x is the
\* old n and n the halved x; x & 3 is x % 4
jacobi_step(T, s) ==
    With(jacobi_halve(T, s), LAMBDA h :
        [x |-> rem(T, h.n, h.x),
         n |-> h.x,
         par_t |-> IF rem(T, h.n, lit(T, 4)) = lit(T, 3) /\ rem(T, h.x, lit(T, 4)) = lit(T, 3)
                   THEN 0 - h.par_t ELSE h.par_t])

\* jacobi_symbol(x, n) for n > 0
jacobi_symbol(T, x, n) ==
    With(While(LAMBDA s : ~lt(T, lit(T, 0), s.x),
               LAMBDA s : jacobi_step(T, s),
               [x |-> IF le(T, n, x) THEN rem(T, x, n) ELSE x, n |-> n, par_t |-> 1]),
         LAMBDA s : IF s.n = lit(T, 1) THEN s.par_t ELSE 0)

\* one iteration of the loop of gcd_mod, up to y = y - x
gcd_step(T, s) ==
    With(unsigned_shr(T, s.y, trailing_zeros(T, s.y)), LAMBDA y1 :
        [x |-> min(T, s.x, y1), y |-> sub(T, max(T, s.x, y1), min(T, s.x, y1)), first |-> FALSE])

\* loop { ..; if y == 0 { break x << shift; } }, entered with y > 0
gcd_loop(T, x, y, shift) ==
    unsigned_shl(T, While(LAMBDA s : ~s.first /\ s.y = lit(T, 0),
                          LAMBDA s : gcd_step(T, s),
                          [x |-> x, y |-> y, first |-> TRUE]).x, shift)

\* x | y with one operand zero is the other operand; the trailing zeros of
\* x | y are the smaller of the two counts.
gcd_mod(T, x, y) ==
    IF x = lit(T, 0) \/ y = lit(T, 0) THEN add(T, x, y)
    ELSE gcd_loop(T, unsigned_shr(T, x, trailing_zeros(T, x)), y,
                  Min(trailing_zeros(T, x), trailing_zeros(T, y)))

\* one iteration of the loop of multip_inv
multip_inv_step(T, modu, s) ==
    With(div(T, s.rem, s.rem_new), LAMBDA quo :
        [rem |-> s.rem_new,
         rem_new |-> sub(T, s.rem, mul(T, quo, s.rem_new)),
         inv |-> s.inv_new,
         inv_new |-> sub_mod_unsafe(T, s.inv, mult_mod_unsafe(T, quo, s.inv_new, modu), modu)])

\* the loop of multip_inv without the test of rem after it
multip_inv_loop_unchecked(T, modu, rem_, rem_new, inv, inv_new) ==
    While(LAMBDA s : ~lt(T, lit(T, 0), s.rem_new),
          LAMBDA s : multip_inv_step(T, modu, s),
          [rem |-> rem_, rem_new |-> rem_new, inv |-> inv, inv_new |-> inv_new]).inv

\* while rem_new > 0 { .. } and the return value
multip_inv_loop(T, modu, rem_, rem_new, inv, inv_new) ==
    With(While(LAMBDA s : ~lt(T, lit(T, 0), s.rem_new),
               LAMBDA s : multip_inv_step(T, modu, s),
               [rem |-> rem_, rem_new |-> rem_new, inv |-> inv, inv_new |-> inv_new]),
         LAMBDA s : IF lt(T, lit(T, 1), s.rem) THEN lit(T, 0) ELSE s.inv)

multip_inv(T, x, modu) ==
    multip_inv_loop(T, modu, modu, IF le(T, modu, x) THEN rem(T, x, modu) ELSE x,
                    lit(T, 0), lit(T, 1))

trunc_square(T, x) ==
    IF lt(T, lit(T, 0), x)
    THEN IF lt(T, x, div(T, MaxValue(T), x)) THEN mul(T, x, x) ELSE lit(T, 0)
    ELSE lit(T, 0)

-----------------------------------------------------------------------------
(* SignCast: src/src/arith/mod.rs.  A value of the signed type is an       *)
(* integer.                                                                *)

\* cast_to_unsigned as it would be without the rounding up of k
cast_to_unsigned_no_round_up(T, x, modu) ==
    IF x >= 0 THEN Some(lit(T, x))
    ELSE IF x = MinValue(T) THEN None
    ELSE With(lit(T, 0 - x), LAMBDA x_abs :
             IF le(T, x_abs, modu) THEN Some(sub(T, modu, x_abs))
             ELSE IF modu = lit(T, 0) THEN Panic
             ELSE Some(sub(T, mul(T, div(T, x_abs, modu), modu), x_abs)))

\* T::try_from(x) for a non-negative x of the signed type with T bits
\* always fits; x.abs() of a negative x other than the minimum fits as well.
cast_to_unsigned(T, x, modu) ==
    IF x >= 0 THEN Some(lit(T, x))
    ELSE IF x = MinValue(T) THEN None
    ELSE With(lit(T, 0 - x), LAMBDA x_abs :
             IF le(T, x_abs, modu) THEN Some(sub(T, modu, x_abs))
             ELSE IF modu = lit(T, 0) THEN Panic       \* x_abs / modu divides by zero
             ELSE With(div(T, x_abs, modu), LAMBDA k0 :
                  With(IF lt(T, lit(T, 0), rem(T, x_abs, modu))
                       THEN add(T, k0, lit(T, 1)) ELSE k0, LAMBDA k :
                      Some(sub(T, mul(T, k, modu), x_abs)))))

-----------------------------------------------------------------------------
(* LinEq and LinEqSigned: src/src/lin/mod.rs                               *)

\* solve_unique as it would be with a in place of its inverse
solve_unique_no_inverse(T, a, c, modu) == mult_mod(T, a, c, modu)

solve_unique(T, a, c, modu) == mult_mod(T, multip_inv(T, a, modu), c, modu)

\* LinEq::solve; self is the record [a, b, c, modu]
lin_solve(T, self) ==
    IF le(T, self.modu, lit(T, 1)) THEN None
    ELSE IF rem(T, self.a, self.modu) = lit(T, 0) THEN None
    ELSE With2(IF lt(T, lit(T, 0), self.b)
               THEN sub_mod(T, self.c, self.b, self.modu) ELSE self.c,
               gcd_mod(T, self.a, self.modu), LAMBDA c, gcd_am :
             IF lt(T, lit(T, 0), rem(T, c, gcd_am)) THEN None
             ELSE IF gcd_am = lit(T, 1) THEN Some(<<solve_unique(T, self.a, c, self.modu)>>)
             ELSE With(div(T, self.modu, gcd_am), LAMBDA new_modu :
                  With(solve_unique(T, div(T, self.a, gcd_am), div(T, c, gcd_am), new_modu),
                       LAMBDA base_sol :
                      Some(range_step(T, base_sol, self.modu, new_modu)))))

\* LinEqSigned::solve; self holds signed a, b, c and the unsigned modu
lin_signed_solve(T, self) ==
    With(cast_to_unsigned(T, self.a, self.modu), LAMBDA a_us :
    With(cast_to_unsigned(T, self.b, self.modu), LAMBDA b_us :
    With(cast_to_unsigned(T, self.c, self.modu), LAMBDA c_us :
        IF a_us.tag # "Some" THEN a_us
        ELSE IF b_us.tag # "Some" THEN b_us
        ELSE IF c_us.tag # "Some" THEN c_us
        ELSE lin_solve(T, [a |-> a_us.val, b |-> b_us.val, c |-> c_us.val,
                           modu |-> self.modu]))))

-----------------------------------------------------------------------------
(* Primality oracle: src/src/prime/mod.rs                                  *)

SMALL_PRIMES == <<3, 5, 7, 11, 13, 17, 19, 23, 29, 31, 37, 41, 43, 47, 53, 59, 61>>

\* The for loop over PRIMES returns at the first prime that is above num / prm
\* or divides num: true if it is above num / prm, else false; false when
\* there is no such prime.
small_prime_loop(T, num) ==
    With({i \in 1..Len(SMALL_PRIMES) :
             \/ lt(T, div(T, num, lit(T, SMALL_PRIMES[i])), lit(T, SMALL_PRIMES[i]))
             \/ rem(T, num, lit(T, SMALL_PRIMES[i])) = lit(T, 0)}, LAMBDA returning :
        IF returning = {} THEN FALSE
        ELSE With(lit(T, SMALL_PRIMES[CHOOSE i \in returning : \A j \in returning : i <= j]),
                  LAMBDA prm : lt(T, div(T, num, prm), prm)))

is_sure_odd_small_prime(T, num) == small_prime_loop(T, num)

\* for _ in 1..pow { q = mult_mod(q, q, num); if q == num_even { jump } }: the
\* value of jump after it
mr_square_loop(T, q, num, rounds) ==
    While(LAMBDA s : s.jump \/ s.rounds <= 0,
          LAMBDA s : With(mult_mod(T, s.q, s.q, num), LAMBDA q2 :
                         [q |-> q2, rounds |-> s.rounds - 1,
                          jump |-> q2 = sub(T, num, lit(T, 1))]),
          [q |-> q, rounds |-> rounds, jump |-> FALSE]).jump

\* one iteration of the loop over the bases: TRUE for `continue`, FALSE for
\* `return false`
mr_base_loop(T, num, base) ==
    With(sub(T, num, lit(T, 1)), LAMBDA num_even :
    With(trailing_zeros(T, num_even), LAMBDA pow2 :
    With(exp_mod(T, lit(T, base), unsigned_shr(T, num_even, pow2), num), LAMBDA q :
        q = lit(T, 1) \/ q = num_even \/ mr_square_loop(T, q, num, pow2 - 1))))

\* is_prime_mr that returns true for every number
is_prime_mr_accepting(T, num, bases) == TRUE

is_prime_mr(T, num, bases) == \A i \in 1..Len(bases) : mr_base_loop(T, num, bases[i])

MR_BASE_SMALL == <<2, 7, 61>>

MR_BASE_LARGE == <<2, 325, 9375, 28178, 450775, 9780504, 1795265022>>

MR_LIMIT == 67

\* The widest type of this model is u64, so of the three tests behind the
\* lookup the one for num > u64::MAX is never reached and is left out.
is_odd_prime(T, num) ==
    IF le(T, num, lit(T, 1)) \/ ~is_odd(T, num) THEN FALSE
    ELSE With(is_sure_odd_small_prime(T, num), LAMBDA small_prime :
             IF small_prime \/ lt(T, num, lit(T, MR_LIMIT)) THEN small_prime
             ELSE IF lt(UIntOf(T, U128), MaxValue(UIntOf(T, U32)), into(T, UIntOf(T, U128), num))
             THEN is_prime_mr(UIntOf(T, U64), into(T, UIntOf(T, U64), num), MR_BASE_LARGE)
             ELSE is_prime_mr(UIntOf(T, U32), into(T, UIntOf(T, U32), num), MR_BASE_SMALL))

-----------------------------------------------------------------------------
(* Utilities: src/src/utils.rs                                             *)

\* make_index_combinations: the tuples of zero-based indices below the
\* given bounds, the first index the most significant.
RECURSIVE make_combs(_, _)
make_combs(bounds, idx) ==
    IF idx > Len(bounds) THEN << <<>> >>
    ELSE LET rest == make_combs(bounds, idx + 1)
         IN  [j \in 1..(bounds[idx] * Len(rest)) |->
                 <<(j - 1) \div Len(rest)>> \o rest[((j - 1) % Len(rest)) + 1]]

make_index_combinations(bounds) ==
    IF bounds = <<>> \/ \E i \in 1..Len(bounds) : bounds[i] = 0
    THEN None
    ELSE Some(make_combs(bounds, 1))

\* the arguments are values of the type u128, T128
largest_common_dividing_power_of_two(T128, x, y, z) ==
    IF is_odd(T128, x) \/ is_odd(T128, y) \/ is_odd(T128, z) THEN 0
    ELSE IF x = lit(T128, 0) \/ y = lit(T128, 0) THEN 0
    ELSE With(Min(trailing_zeros(T128, x), trailing_zeros(T128, y)), LAMBDA min_x_t_y_t :
             IF z = lit(T128, 0) THEN min_x_t_y_t
             ELSE Min(trailing_zeros(T128, z), min_x_t_y_t))
-----------------------------------------------------------------------------
(* QuadEq: src/src/quad/mod.rs.  self is the record [a, b, c, d, modu].    *)

\* iter::range(2, modu).find(|b| exp_mod_unsafe(b, modu_half, modu) != 1)
RECURSIVE find_non_resid(_, _, _, _)
find_non_resid(T, b, modu_half, modu) ==
    IF le(T, modu, b) THEN None
    ELSE IF exp_mod_unsafe(T, b, modu_half, modu) # lit(T, 1) THEN Some(b)
    ELSE find_non_resid(T, add(T, b, lit(T, 1)), modu_half, modu)

\* 2^pow_i % modu and 2^(m - least_i - 1) % modu of tonelli_shanks, in u128
two_pow_rem(T, ex, modu) ==
    With(UIntOf(T, U128), LAMBDA T128 :
        rem(T128, unsigned_shl(T128, lit(T128, 1), ex), into(T, T128, modu)))

\* the inner while loop of tonelli_shanks; 0 stands for "no such i"
RECURSIVE find_least_i(_, _, _, _, _)
find_least_i(T, par_t, modu, pow_i, m) ==
    IF pow_i >= m THEN 0
    ELSE IF exp_mod_unsafe_u128(T, par_t, two_pow_rem(T, pow_i, modu), modu) = lit(T, 1)
    THEN pow_i
    ELSE find_least_i(T, par_t, modu, pow_i + 1, m)

RECURSIVE tonelli_loop(_, _, _, _, _, _)
tonelli_loop(T, modu, par_c, par_t, res, m) ==
    IF Strict(<<par_c, res>>) /\ par_t = lit(T, 0) THEN Some(par_t)
    ELSE IF par_t = lit(T, 1) THEN Some(res)
    ELSE With(find_least_i(T, par_t, modu, 1, m), LAMBDA least_i :
             IF least_i = 0 THEN None
             ELSE With(exp_mod_unsafe_u128(T, par_c, two_pow_rem(T, m - least_i - 1, modu),
                                           modu), LAMBDA par_b :
                  With(mult_mod_unsafe(T, par_b, par_b, modu), LAMBDA new_c :
                      tonelli_loop(T, modu, new_c,
                                   mult_mod_unsafe(T, par_t, new_c, modu),
                                   mult_mod_unsafe(T, res, par_b, modu),
                                   least_i))))

tonelli_shanks(T, q, modu) ==
    With(find_non_resid(T, lit(T, 2), div(T, sub(T, modu, lit(T, 1)), lit(T, 2)), modu),
         LAMBDA non_resid :
    With(sub(T, modu, lit(T, 1)), LAMBDA modu_ev :
    With(trailing_zeros(T, modu_ev), LAMBDA pow2 :
    With2(unsigned_shr(T, modu_ev, pow2), UIntOf(T, U128), LAMBDA modu_odd, T128 :
        IF non_resid.tag = "None" THEN None
        ELSE tonelli_loop(T, modu,
                          exp_mod_unsafe(T, non_resid.val, modu_odd, modu),
                          exp_mod(T, q, modu_odd, modu),
                          exp_mod(T, q, div(T, add(T, modu_odd, lit(T, 1)), lit(T, 2)), modu),
                          val(T128, rem(T128, lit(T128, pow2), into(T, T128, modu))))))))

solve_quad_residue_odd_prime_mod(T, self) ==
    IF self.d = lit(T, 0) THEN Some(<<self.d>>)
    ELSE IF exp_mod(T, self.d, div(T, sub(T, self.modu, lit(T, 1)), lit(T, 2)), self.modu)
            # lit(T, 1)
    THEN None
    ELSE With(tonelli_shanks(T, self.d, self.modu), LAMBDA x :
             IF x.tag = "None" THEN None
             ELSE IF x.val = lit(T, 0) THEN Some(<<x.val>>)
             ELSE Some(sort(T, <<x.val, sub_mod_unsafe(T, lit(T, 0), x.val, self.modu)>>)))

solve_linear_singular(T, self) ==
    IF self.b = lit(T, 0) /\ self.d = lit(T, 0) THEN Some(<<lit(T, 0)>>)
    ELSE With(gcd_mod(T, self.b, self.modu), LAMBDA gcd_bm :
             IF lt(T, lit(T, 0), rem(T, self.d, gcd_bm)) THEN None
             ELSE IF gcd_bm = lit(T, 1)
             THEN Some(<<mult_mod(T, multip_inv(T, self.b, self.modu), self.d, self.modu)>>)
             ELSE With(div(T, self.modu, gcd_bm), LAMBDA new_modu :
                  With(mult_mod(T, multip_inv(T, div(T, self.b, gcd_bm), new_modu),
                                div(T, self.d, gcd_bm), new_modu), LAMBDA base_sol :
                      Some(range_step(T, base_sol, self.modu, new_modu)))))

\* the end of solve_quad_simple: lin_solve for the roots z of the residue
solve_quad_simple_roots(T, quad, z, lin_a) ==
    IF z.tag = "None" \/ z.val = <<>> THEN None
    ELSE With(lin_solve(T, [a |-> lin_a, b |-> quad.b, c |-> z.val[1], modu |-> quad.modu]),
              LAMBDA x_sols :
             IF x_sols.tag = "None" THEN None
             ELSE IF z.val[1] = lit(T, 0) \/ Len(z.val) = 1 THEN x_sols
             ELSE With(lin_solve(T, [a |-> lin_a, b |-> quad.b, c |-> z.val[2],
                                     modu |-> quad.modu]), LAMBDA x_sols_2 :
                      IF x_sols_2.tag = "None" THEN x_sols
                      ELSE Some(sort(T, x_sols.val \o x_sols_2.val))))

solve_quad_simple(T, self) ==
    IF self.a = lit(T, 0) /\ self.b = lit(T, 0) THEN None
    ELSE IF rem(T, self.a, self.modu) = lit(T, 0) THEN solve_linear_singular(T, self)
    ELSE With2(mult_mod(T, self.b, self.b, self.modu),
               mult_mod(T, lit(T, 4), mult_mod(T, self.a, self.d, self.modu), self.modu),
               LAMBDA b2, four_ad :
         With([self EXCEPT !.d = add_mod_unsafe(T, b2, four_ad, self.modu)], LAMBDA quad :
             solve_quad_simple_roots(T, quad, solve_quad_residue_odd_prime_mod(T, quad),
                                     mult_mod(T, lit(T, 2), quad.a, quad.modu))))

\* the polynomial a*x^2 + b*x - d modulo modu, as both lifting methods compute it
lift_poly(T, self, x, modu) ==
    add_mod_unsafe(T, add_mod_unsafe(T, mult_mod(T, self.a, mult_mod(T, x, x, modu), modu),
                                     mult_mod(T, self.b, x, modu), modu),
                   sub_mod(T, lit(T, 0), self.d, modu), modu)

\* one round of lift_singular_root over the current roots
lift_singular_round(T, self, sols, modu) ==
    concat([i \in 1..Len(sols) |->
               IF rem(T, lift_poly(T, self, sols[i], modu), modu) = lit(T, 0)
               THEN range_step(T, sols[i], modu, div(T, modu, self.modu))
               ELSE <<>>])

RECURSIVE lift_singular_loop(_, _, _, _, _)
lift_singular_loop(T, self, sols, modu, rounds) ==
    IF Strict(<<sols, modu>>) /\ rounds = 0 THEN Some(sols)
    ELSE With(mul(T, modu, self.modu), LAMBDA new_modu :
         With(lift_singular_round(T, self, sols, new_modu), LAMBDA lifted_sols :
             IF lifted_sols = <<>> THEN None
             ELSE lift_singular_loop(T, self, lifted_sols, new_modu, rounds - 1)))

\* for _ in 1..prm_k runs prm_k - 1 times, and not at all for prm_k = 0
loop_rounds(prm_k) == IF prm_k >= 1 THEN prm_k - 1 ELSE 0

\* lift_singular_root that keeps the root and adds no lift
lift_singular_root_unlifted(T, self, sub_sol, prm_k) == Some(<<sub_sol>>)

lift_singular_root(T, self, sub_sol, prm_k) ==
    lift_singular_loop(T, self, <<sub_sol>>, self.modu, loop_rounds(prm_k))

\* the loop of the regular roots without its rounds
hensel_newton_loop_unlifted(T, self, t, lifted_sol, modu, rounds) == lifted_sol

RECURSIVE hensel_newton_loop(_, _, _, _, _, _)
hensel_newton_loop(T, self, t, lifted_sol, modu, rounds) ==
    IF Strict(<<t, lifted_sol, modu>>) /\ rounds = 0 THEN lifted_sol
    ELSE With(mul(T, modu, self.modu), LAMBDA new_modu :
             hensel_newton_loop(T, self, t,
                 sub_mod_unsafe(T, lifted_sol,
                                mult_mod_unsafe(T, lift_poly(T, self, lifted_sol, new_modu), t,
                                                new_modu),
                                new_modu),
                 new_modu, rounds - 1))

\* the lifted solutions pushed for the sub-solution sub_sol
hensel_sub_sols(T, self, sub_sol, prm_k) ==
    With(add_mod(T, mult_mod(T, lit(T, 2), mult_mod(T, self.a, sub_sol, self.modu), self.modu),
                 self.b, self.modu), LAMBDA poly_d :
        IF gcd_mod(T, self.modu, poly_d) # lit(T, 1)
        THEN With(lift_singular_root(T, self, sub_sol, prm_k), LAMBDA lifted_sols :
                 IF lifted_sols.tag = "Some" THEN lifted_sols.val ELSE <<>>)
        ELSE <<hensel_newton_loop(T, self, multip_inv(T, poly_d, self.modu), sub_sol,
                                  self.modu, loop_rounds(prm_k))>>)

lift_with_hensel_method(T, self, sub_sols, prm_k) ==
    With(concat([i \in 1..Len(sub_sols) |-> hensel_sub_sols(T, self, sub_sols[i], prm_k)]),
         LAMBDA sols : IF sols = <<>> THEN None ELSE Some(sols))
\* u8 subtraction prm_k - t
sub_u8(x, y) == (x - y) % Pow(2, U8)

\* The sorted sequence of a set of T values.  The source collects the set
\* from a HashSet in an unspecified order; every caller sorts the values or
\* inserts them into a set again.
set_to_seq(T, set) ==
    [i \in 1..Cardinality(set) |->
        CHOOSE x \in set : Cardinality({y \in set : lt(T, y, x)}) = i - 1]

\* the while loop over r for one sub-solution s
scale_one(T, s, modulo_t, multiplier, modulo) ==
    {add_mod(T, s, mult_mod(T, r, multiplier, modulo), modulo) :
        r \in Range(range_step(T, lit(T, 0), modulo_t, lit(T, 1)))}

scale_possible_solutions_mod_power_of_two(T, self, sub_sols, prm_k, m_prm_k, t) ==
    With3(pow(T, self.modu, prm_k), pow(T, self.modu, t), pow(T, self.modu, m_prm_k),
          LAMBDA modulo, modulo_t, multiplier :
    With(UNION {scale_one(T, sub_sols[i], modulo_t, multiplier, modulo) :
                i \in 1..Len(sub_sols)}, LAMBDA sols :
        IF sols = {} THEN None ELSE Some(set_to_seq(T, sols))))

\* the test of search_possible_solutions_mod_power_of_two on s
is_possible_solution(T, self, s) ==
    sub_mod(T, add_mod_unsafe(T, mult_mod(T, self.a, mul(T, s, s), self.modu),
                              mult_mod(T, self.b, s, self.modu), self.modu),
            self.d, self.modu) = lit(T, 0)

search_possible_solutions_mod_power_of_two(T, self) ==
    With([i \in 1..2 |-> is_possible_solution(T, self, lit(T, i - 1))], LAMBDA is_sol :
    With((IF is_sol[1] THEN <<lit(T, 0)>> ELSE <<>>)
         \o (IF is_sol[2] THEN <<lit(T, 1)>> ELSE <<>>), LAMBDA sols :
        IF sols = <<>> THEN None ELSE Some(sols)))

solve_quad_simple_mod_two(T, self) ==
    IF is_odd(T, self.a) /\ is_odd(T, self.d) THEN Some(<<lit(T, 1)>>)
    ELSE IF is_odd(T, self.a) THEN Some(<<lit(T, 0)>>)
    ELSE IF is_odd(T, self.d) THEN None
    ELSE Some(<<lit(T, 0), lit(T, 1)>>)

solve_quad_simple_mod_four(T, self, total_modulo) ==
    IF ~is_odd(T, self.d)
    THEN With2(rem(T, self.d, lit(T, 4)) = lit(T, 0), rem(T, self.a, lit(T, 4)),
               LAMBDA d_div_by_four, a_mod_four :
             IF d_div_by_four /\ a_mod_four = lit(T, 0)
             THEN Some(<<lit(T, 0), lit(T, 1), lit(T, 2), lit(T, 3)>>)
             ELSE IF d_div_by_four THEN Some(<<lit(T, 0), lit(T, 2)>>)
             ELSE IF a_mod_four = lit(T, 2) THEN Some(<<lit(T, 1), lit(T, 3)>>)
             ELSE None)
    ELSE IF gcd_mod(T, self.a, total_modulo) = lit(T, 1)
    THEN IF rem(T, mult_mod(T, multip_inv(T, self.a, total_modulo), self.d, total_modulo),
                lit(T, 4)) = lit(T, 1)
         THEN Some(<<lit(T, 1), lit(T, 3)>>)
         ELSE None
    ELSE None

\* for j in 3..prm_k: correct s bit by bit
RECURSIVE odd_square_loop(_, _, _, _, _, _)
odd_square_loop(T, s, d, j, prm_k, total_modulo) ==
    IF Strict(s) /\ j >= prm_k THEN s
    ELSE With2(pow(T, lit(T, 2), j), mult_mod(T, s, s, total_modulo), LAMBDA t, s2 :
         With(IF le(T, d, s2) THEN div(T, sub(T, s2, d), t) ELSE div(T, sub(T, d, s2), t),
              LAMBDA r :
         With(IF is_odd(T, r) THEN lit(T, 1) ELSE lit(T, 0), LAMBDA bit :
             odd_square_loop(T, add_mod(T, s, mul(T, bit, unsigned_shr(T, t, 1)), total_modulo),
                             d, j + 1, prm_k, total_modulo))))

solve_quad_simple_mod_higher_power_of_two(T, self, prm_k, total_modulo) ==
    With(mult_mod(T, multip_inv(T, self.a, total_modulo), self.d, total_modulo), LAMBDA d :
        IF d = lit(T, 0)
        THEN Some(range_step(T, lit(T, 0), total_modulo, pow(T, self.modu, (prm_k + 1) \div 2)))
        ELSE IF rem(T, d, lit(T, 8)) = lit(T, 1)
        THEN With([i \in 1..2 |->
                      odd_square_loop(T, lit(T, 2 * i - 1), d, 3, prm_k, total_modulo)],
                  LAMBDA s :
                 Some(<<s[1], sub(T, total_modulo, s[1]), s[2], sub(T, total_modulo, s[2])>>))
        ELSE IF trunc_square(T, isqrt(T, d)) = d
        THEN lift_with_hensel_method(T, [self EXCEPT !.a = lit(T, 1), !.d = d],
                                     <<lit(T, 0)>>, prm_k)
        ELSE None)

\* largest_common_dividing_power_of_two on x.into(), y.into(), z.into()
common_power_of_two(T, x, y, z) ==
    With(UIntOf(T, U128), LAMBDA T128 :
        largest_common_dividing_power_of_two(T128, into(T, T128, x), into(T, T128, y),
                                             into(T, T128, z)))

RECURSIVE solve_quad_residue_power_of_two_mod(_, _, _, _)
RECURSIVE solve_quad_simple_even_terms_mod_higher_power_of_two(_, _, _, _)

solve_quad_residue_power_of_two_mod(T, self, prm_k, total_modulo) ==
    IF prm_k = 1 THEN solve_quad_simple_mod_two(T, self)
    ELSE IF prm_k = 2 THEN solve_quad_simple_mod_four(T, self, total_modulo)
    ELSE IF gcd_mod(T, self.a, total_modulo) = lit(T, 1)
    THEN solve_quad_simple_mod_higher_power_of_two(T, self, prm_k, total_modulo)
    ELSE IF ~is_odd(T, self.d) /\ ~is_odd(T, self.a)
            /\ lt(T, lit(T, 0), rem(T, self.a, total_modulo))
    THEN solve_quad_simple_even_terms_mod_higher_power_of_two(T, self, prm_k, total_modulo)
    ELSE None

solve_quad_simple_even_terms_mod_higher_power_of_two(T, self, prm_k, total_modulo) ==
    With(common_power_of_two(T, rem(T, self.a, total_modulo), total_modulo,
                             rem(T, self.d, total_modulo)), LAMBDA t :
    With(sub_u8(prm_k, t), LAMBDA m_prm_k :
    With(solve_quad_residue_power_of_two_mod(T,
             [self EXCEPT !.a = unsigned_shr(T, self.a, t), !.d = unsigned_shr(T, self.d, t)],
             m_prm_k, pow(T, self.modu, m_prm_k)), LAMBDA sols :
        IF sols.tag = "Some"
        THEN scale_possible_solutions_mod_power_of_two(T, self, sols.val, prm_k, m_prm_k, t)
        ELSE None)))

solve_quad_mod_power_of_two(T, self, prm_k, total_modulo) ==
    IF self.b = lit(T, 0) THEN solve_quad_residue_power_of_two_mod(T, self, prm_k, total_modulo)
    ELSE With(common_power_of_two(T, rem(T, self.a, total_modulo),
                                  rem(T, self.b, total_modulo),
                                  rem(T, self.d, total_modulo)), LAMBDA t :
         With2(sub_u8(prm_k, t),
               [self EXCEPT !.a = unsigned_shr(T, self.a, t),
                            !.b = unsigned_shr(T, self.b, t),
                            !.d = unsigned_shr(T, self.d, t)], LAMBDA m_prm_k, m_quad :
         With3(~is_odd(T, m_quad.a), ~is_odd(T, m_quad.b),
               search_possible_solutions_mod_power_of_two(T, m_quad),
               LAMBDA a_even, b_even, simple_sols :
             IF is_odd(T, m_quad.d) /\ ((a_even /\ b_even) \/ (~a_even /\ ~b_even)) THEN None
             ELSE IF simple_sols.tag = "None" THEN None
             ELSE IF prm_k > 1
             THEN With(lift_with_hensel_method(T, m_quad, simple_sols.val, m_prm_k),
                       LAMBDA sols :
                      IF sols.tag = "None" THEN None
                      ELSE IF t = 0 THEN sols
                      ELSE scale_possible_solutions_mod_power_of_two(T, self, sols.val, prm_k,
                                                                     m_prm_k, t))
             ELSE scale_possible_solutions_mod_power_of_two(T, self, simple_sols.val, prm_k,
                                                            m_prm_k, t))))

\* the sum over one index combination
RECURSIVE combine_sum(_, _, _, _, _, _, _)
combine_sum(T, all_sols, compo_modu, modu_start_indices, combi, i, sum) ==
    IF Strict(sum) /\ i > Len(combi) THEN sum
    ELSE With(all_sols[combi[i] + modu_start_indices[i] + 1], LAMBDA sol :
         With(div(T, compo_modu, sol[2]), LAMBDA modu_div :
         With(mult_mod_unsafe(T, mult_mod(T, sol[1], modu_div, compo_modu),
                              multip_inv(T, modu_div, sol[2]), compo_modu), LAMBDA res :
             combine_sum(T, all_sols, compo_modu, modu_start_indices, combi, i + 1,
                         add_mod_unsafe(T, sum, res, compo_modu)))))

\* combine_solution_for_compo_modu without the sort of the sums
combine_solution_unsorted(T, all_sols, compo_modu, modu_start_indices, modu_sol_counts) ==
    With(make_index_combinations(modu_sol_counts), LAMBDA index_combinations :
        IF index_combinations.tag = "None" THEN Panic
        ELSE Some([j \in 1..Len(index_combinations.val) |->
                      combine_sum(T, all_sols, compo_modu, modu_start_indices,
                                  index_combinations.val[j], 1, lit(T, 0))]))

\* all_sols is a sequence of pairs <<solution, modulo of the solution>>
combine_solution_for_compo_modu(T, all_sols, compo_modu, modu_start_indices, modu_sol_counts) ==
    With(make_index_combinations(modu_sol_counts), LAMBDA index_combinations :
        IF index_combinations.tag = "None" THEN Panic
        ELSE Some(sort(T, [j \in 1..Len(index_combinations.val) |->
                              combine_sum(T, all_sols, compo_modu, modu_start_indices,
                                          index_combinations.val[j], 1, lit(T, 0))])))

\* the sub-solutions for one pair (prm_factor, prm_k) of the representation
composite_sub_sols(T, quad, prm_k, total_modulo) ==
    IF lt(T, lit(T, 2), quad.modu)
    THEN With(solve_quad_simple(T, quad), LAMBDA x_sols :
             IF x_sols.tag = "None" THEN None
             ELSE IF prm_k <= 1 THEN x_sols
             ELSE lift_with_hensel_method(T, quad, x_sols.val, prm_k))
    ELSE solve_quad_mod_power_of_two(T, quad, prm_k, total_modulo)

\* the for loop of solve_quad_composite_mod from the i-th pair on; acc holds
\* x_sols, modu_start_index and modu_sol_count
RECURSIVE composite_loop(_, _, _, _, _)
composite_loop(T, self, factor_repr, i, acc) ==
    IF Strict(acc) /\ i > Len(factor_repr) THEN Some(acc)
    ELSE With2(factor_repr[i][1], factor_repr[i][2], LAMBDA prm_factor, prm_k :
         With(pow(T, prm_factor, prm_k), LAMBDA total_modulo :
         With(composite_sub_sols(T, [self EXCEPT !.modu = prm_factor], prm_k, total_modulo),
              LAMBDA x_sub_sols :
             IF x_sub_sols.tag = "None" \/ x_sub_sols.val = <<>> THEN None
             ELSE composite_loop(T, self, factor_repr, i + 1,
                      [x_sols |-> acc.x_sols \o [j \in 1..Len(x_sub_sols.val) |->
                                                    <<x_sub_sols.val[j], total_modulo>>],
                       modu_start_index |-> Append(acc.modu_start_index,
                                                   Len(acc.x_sols) + Len(x_sub_sols.val)),
                       modu_sol_count |-> Append(acc.modu_sol_count, Len(x_sub_sols.val))]))))

\* factor_repr is a sequence of pairs <<prime factor, count>>
solve_quad_composite_mod(T, self, factor_repr) ==
    With(composite_loop(T, self, factor_repr, 1,
                        [x_sols |-> <<>>, modu_start_index |-> <<0>>, modu_sol_count |-> <<>>]),
         LAMBDA acc :
        IF acc.tag = "None" THEN None
        ELSE IF Len(factor_repr) > 1
        THEN combine_solution_for_compo_modu(T, acc.val.x_sols, self.modu,
                 SubSeq(acc.val.modu_start_index, 1, Len(acc.val.modu_start_index) - 1),
                 acc.val.modu_sol_count)
        ELSE Some(sort(T, [j \in 1..Len(acc.val.x_sols) |-> acc.val.x_sols[j][1]])))

\* QuadEqSigned::solve up to the call of QuadEq::solve: the unsigned equation,
\* or the failed cast
quad_signed_cast(T, self) ==
    With2(cast_to_unsigned(T, self.a, self.modu), cast_to_unsigned(T, self.b, self.modu),
          LAMBDA a_us, b_us :
    With2(cast_to_unsigned(T, self.c, self.modu), cast_to_unsigned(T, self.d, self.modu),
          LAMBDA c_us, d_us :
        IF a_us.tag # "Some" THEN a_us
        ELSE IF b_us.tag # "Some" THEN b_us
        ELSE IF c_us.tag # "Some" THEN c_us
        ELSE IF d_us.tag # "Some" THEN d_us
        ELSE Some([a |-> a_us.val, b |-> b_us.val, c |-> c_us.val, d |-> d_us.val,
                   modu |-> self.modu])))

-----------------------------------------------------------------------------
(* Factors: src/src/factor/mod.rs.  The sequential steps of the engine; a  *)
(* step that pushes to self.factors returns the pushed values in order.    *)

PRIMES ==
    <<2, 3, 5, 7, 11, 13, 17, 19, 23, 29, 31, 37, 41, 43, 47, 53, 59, 61, 67, 71, 73, 79, 83,
      89, 97, 101, 103, 107, 109, 113, 127, 131, 137, 139, 149, 151, 157, 163, 167, 173, 179,
      181, 191, 193, 197, 199, 211, 223, 227, 229, 233, 239, 241, 251>>

\* the for loop of factorize_trial from the i-th prime on: a prime that does
\* not divide num leaves num and the factors as they are, so the loop goes on
\* at the first prime from the i-th on that divides num, and ends when there
\* is none
RECURSIVE trial_loop(_, _, _, _)
trial_loop(T, num, i, factors) ==
    With({j \in i..Len(PRIMES) : rem(T, num, lit(T, PRIMES[j])) = lit(T, 0)}, LAMBDA dividing :
        IF dividing = {} THEN [num |-> num, factors |-> factors]
        ELSE With(CHOOSE j \in dividing : \A k \in dividing : j <= k, LAMBDA j :
                 trial_loop(T, div(T, num, lit(T, PRIMES[j])), j,
                            Append(factors, lit(T, PRIMES[j])))))

factorize_trial(T, num) == trial_loop(T, num, 1, <<>>)

\* `count` copies of the values of s, in order
RECURSIVE repeat(_, _)
repeat(s, count) == IF count <= 0 THEN <<>> ELSE s \o repeat(s, count - 1)

\* the for loop of factorize_fermat, entered with a: round k works on a + k. A
\* round is reached when trunc_square was not zero for a + 1 .. a + k, and the
\* loop returns in the first round reached where a^2 - num is a square; when
\* there is none, whether by a zero square or after the last round, it
\* returns num and has pushed nothing
fermat_square_at(T, num, a) ==
    With(sub(T, trunc_square(T, a), num), LAMBDA b_square :
        With(isqrt(T, b_square), LAMBDA b : trunc_square(T, b) = b_square))

fermat_loop(T, num, level, a, rounds) ==
    With({k \in 0..(rounds - 1) :
             /\ \A j \in 1..k : trunc_square(T, add(T, a, lit(T, j))) # lit(T, 0)
             /\ fermat_square_at(T, num, add(T, a, lit(T, k)))}, LAMBDA squares :
        IF squares = {} THEN [num |-> num, factors |-> <<>>]
        ELSE With(add(T, a, lit(T, CHOOSE k \in squares : \A j \in squares : k <= j)),
                  LAMBDA a_k :
             With(isqrt(T, sub(T, trunc_square(T, a_k), num)), LAMBDA b :
                 [num |-> lit(T, 1),
                  factors |-> repeat(<<sub(T, a_k, b), add(T, a_k, b)>>, level \div 2)])))

FERMAT_ROUNDS == 10

RECURSIVE factorize_fermat(_, _, _)
factorize_fermat(T, num, level) ==
    With(isqrt(T, num), LAMBDA a :
        IF trunc_square(T, a) = num
        THEN IF is_odd_prime(T, a)
             THEN [num |-> lit(T, 1), factors |-> repeat(<<a>>, level)]
             ELSE With(factorize_fermat(T, a, level * 2), LAMBDA back :
                      [num |-> IF lt(T, lit(T, 1), back.num) THEN num ELSE back.num,
                       factors |-> back.factors])
        ELSE With(add(T, a, lit(T, 1)), LAMBDA a1 :
             With(trunc_square(T, a1), LAMBDA a1_square :
                 IF a1_square = lit(T, 0) THEN [num |-> num, factors |-> <<>>]
                 ELSE fermat_loop(T, num, level, a1, FERMAT_ROUNDS))))

\* every distinct factor kept once
prune_loop_distinct(T, factors, i, k) == set_to_seq(T, {factors[j] : j \in 1..i})

\* the for loop of prune_duplicate_factors over the sorted factors, from the
\* largest down
RECURSIVE prune_loop(_, _, _, _)
prune_loop(T, factors, i, k) ==
    IF i = 0 THEN <<>>
    ELSE IF rem(T, k, factors[i]) = lit(T, 0)
    THEN Append(prune_loop(T, factors, i - 1, div(T, k, factors[i])), factors[i])
    ELSE prune_loop(T, factors, i - 1, k)

\* prune_duplicate_factors without the for loop: the sort only
prune_keep_all(T, num, factors) == sort(T, factors)

prune_duplicate_factors(T, num, factors) ==
    prune_loop(T, sort(T, factors), Len(factors), num)

\* the for loop of prime_factor_repr from the i-th factor down; the result is
\* in the order of the pushes, largest prime first
RECURSIVE repr_loop(_, _, _, _, _, _)
repr_loop(T, factors, i, k, count, prev_factor) ==
    IF Strict(<<k, count>>) /\ i = 0 THEN <<>>
    ELSE With2(factors[i], div(T, k, factors[i]), LAMBDA curr_factor, k1 :
         With(curr_factor # prev_factor /\ count > 0, LAMBDA flush :
         With((IF flush THEN 0 ELSE count) + 1, LAMBDA count1 :
             (IF flush THEN <<<<prev_factor, count>>>> ELSE <<>>)
             \o (IF k1 = lit(T, 1) THEN <<<<curr_factor, count1>>>>
                 ELSE repr_loop(T, factors, i - 1, k1, count1, curr_factor)))))

reverse(s) == [i \in 1..Len(s) |-> s[Len(s) + 1 - i]]

prime_factor_repr(T, num, factors) ==
    reverse(repr_loop(T, factors, Len(factors), num, 0, lit(T, 0)))


-----------------------------------------------------------------------------
(* The calls the model makes.                                              *)

\* i8::MIN, i8::MAX and u8::MAX
I8Min == 0 - Pow(2, U8 - 1)
I8Max == Pow(2, U8 - 1) - 1
U8Max == Pow(2, U8) - 1

\* Moduli 0..MaxModu and coefficients 0..MaxCoef of the u8 solvers, next to
\* the values at the top of the width.
MaxModu == 12
MaxCoef == 8
EdgeModu == {128, 243, 250, 251, 255}
EdgeCoef == {127, 128, 254, 255}

LinModu == 0..MaxModu \cup EdgeModu
LinCoef == 0..MaxCoef \cup EdgeCoef

\* Signed coefficients -MaxSignedCoef..MaxSignedCoef next to the ends of i8.
MaxSignedCoef == 4
SignedModu == 0..MaxModu
SignedCoef == (0 - MaxSignedCoef)..MaxSignedCoef \cup {I8Min, I8Min + 1, I8Max}

\* Coefficients 0..MaxQuadCoef of QuadEq<u8>, and -MaxQuadSigned..MaxQuadSigned
\* of QuadEqSigned<i8, u8>, whose moduli are 0..MaxQuadSignedModu.
MaxQuadCoef == 3
MaxQuadSigned == 3
MaxQuadSignedModu == 6
QuadModu == 0..MaxModu \cup EdgeModu
QuadCoef == 0..MaxQuadCoef \cup {U8Max}
QuadSignedCoef == (0 - MaxQuadSigned)..MaxQuadSigned \cup {I8Min, I8Max}

\* the QuadEq<u8> equations solved
QuadCalls == [a : QuadCoef, b : QuadCoef, c : QuadCoef, d : QuadCoef, modu : QuadModu]

\* the product of the numbers of s, as a value of type T
RECURSIVE product(_, _)
product(T, s) == IF s = <<>> THEN lit(T, 1) ELSE mul(T, lit(T, Head(s)), product(T, Tail(s)))

\* the product of the values s[i], i in S, of type T
RECURSIVE product_of(_, _, _)
product_of(T, s, S) ==
    IF S = {} THEN lit(T, 1)
    ELSE LET i == CHOOSE j \in S : TRUE
         IN  mul(T, s[i], product_of(T, s, S \ {i}))

\* n is a prime number
IsPrimeNat(n) == n > 1 /\ \A d \in 2..(n - 1) : d > n \div d \/ n % d # 0

\* the primes of n in ascending order, each as often as it divides n
RECURSIVE prime_list(_, _)
prime_list(n, d) ==
    IF n <= 1 THEN <<>>
    ELSE IF d * d > n THEN <<n>>
    ELSE IF n % d = 0 THEN <<d>> \o prime_list(n \div d, d)
    ELSE prime_list(n, d + 1)

\* Numbers of the wide types, each given by its primes: products that the
\* Fermat step splits, that it leaves to the workers, primes and powers.
WideNumbers ==
    { [T |-> U32, primes |-> <<65537>>],
      [T |-> U32, primes |-> <<257, 257>>],
      [T |-> U32, primes |-> <<257, 263>>],
      [T |-> U32, primes |-> <<257, 521>>],
      [T |-> U32, primes |-> <<257, 263, 269>>],
      [T |-> U32, primes |-> <<257, 257, 65011>>],
      [T |-> U64, primes |-> <<257, 257, 257, 257>>],
      [T |-> U64, primes |-> <<257, 257, 66047>>],
      [T |-> U64, primes |-> <<257, 257, 257, 66047>>] }

\* QuadEq<u32> and QuadEq<u64> calls: the coefficients as numbers, the
\* modulus by its primes
WideModuli == {<<257, 257>>, <<257, 263>>, <<257, 257, 65011>>}
WideQuads ==
    { [T |-> U32, a |-> a, b |-> b, c |-> c, d |-> d, primes |-> m] :
        m \in WideModuli, a \in {1, 257}, b \in {0, 1}, c \in {0, 1}, d \in {0, 1} }
    \cup { [T |-> U64, a |-> 1, b |-> 1, c |-> 0, d |-> 0, primes |-> <<257, 257, 257, 263>>],
           [T |-> U64, a |-> 257, b |-> 0, c |-> 0, d |-> 0, primes |-> <<257, 257, 257, 263>>] }

-----------------------------------------------------------------------------
(* The program's state.                                                    *)

VARIABLES call, quad, pc, result, self, num, frames, ec_factors, maybe_factors, mutex, workers,
          channel, completed, prev_factors

\* call          the API call in progress: its operation, the width T of its
\*               type and its arguments; for a number of a wide type also
\*               `primes`, the primes the number was multiplied from
\* quad          the local `quad` of QuadEq::solve
\* pc            the position of the calling thread
\* result        the value the call returned
\* self          the Factors struct being factorized: its fields num, factors
\* num           the local `num` of factorize_until_completed
\* frames        the suspended calls of factorize_elliptic that wait for a
\*               factors_inner: their struct, their `num`, their ec_factors
\* ec_factors    the pairs factorize_elliptic has still to go through
\* maybe_factors the MaybeFactors behind the mutex
\* mutex         the threads that hold a MutexGuard of maybe_factors_mtx
\* workers       the local variables of the worker threads
\* channel       the messages sent and not yet received
\* completed     the message spawn_workers received
\* prev_factors  the list an earlier factorize() of the same struct left
vars == <<call, quad, pc, result, self, num, frames, ec_factors, maybe_factors, mutex, workers,
          channel, completed, prev_factors>>

engine_vars == <<self, num, frames, ec_factors, maybe_factors, mutex, workers, channel,
                 completed, prev_factors>>
race_vars == <<maybe_factors, mutex, workers, channel, completed>>

Init ==
    /\ call = [op |-> "none"]
    /\ quad = None
    /\ pc = "idle"
    /\ result = Pending
    /\ self = [num |-> 0, factors |-> <<>>]
    /\ num = 0
    /\ frames = <<>>
    /\ ec_factors = <<>>
    /\ maybe_factors = [num |-> 0, factors |-> <<>>]
    /\ mutex = {}
    /\ workers = <<>>
    /\ channel = <<>>
    /\ completed = None
    /\ prev_factors = None

-----------------------------------------------------------------------------
(* SignCast, LinEq and LinEqSigned.                                        *)

\* Operands 0..MaxArith and moduli 2..MaxArithModu of the kernel, next to the
\* values at the top of the width.
MaxArith == 12
MaxArithModu == 12
ArithVals == 0..MaxArith \cup EdgeCoef
ArithModu == 2..MaxArithModu \cup EdgeModu

\* a call of a kernel function of three arguments that returns value
ArithCall(op, x, y, modu, value) ==
    /\ call' = [op |-> op, T |-> U8, x |-> x, y |-> y, modu |-> modu]
    /\ result' = value
    /\ pc' = "done"
    /\ UNCHANGED <<quad, engine_vars>>

\* u8::add_mod(x, y, modu)
AddMod ==
    /\ pc = "idle"
    /\ \E x \in ArithVals, y \in ArithVals, modu \in ArithModu :
          ArithCall("add_mod", x, y, modu, add_mod(UInt(U8), x, y, modu))

\* u8::sub_mod(x, y, modu)
SubMod ==
    /\ pc = "idle"
    /\ \E x \in ArithVals, y \in ArithVals, modu \in ArithModu :
          ArithCall("sub_mod", x, y, modu, sub_mod(UInt(U8), x, y, modu))

\* u8::mult_mod(x, y, modu)
MultMod ==
    /\ pc = "idle"
    /\ \E x \in ArithVals, y \in ArithVals, modu \in ArithModu :
          ArithCall("mult_mod", x, y, modu, mult_mod(UInt(U8), x, y, modu))

\* u8::exp_mod(base, ex, modu)
ExpMod ==
    /\ pc = "idle"
    /\ \E x \in ArithVals, y \in ArithVals, modu \in ArithModu :
          ArithCall("exp_mod", x, y, modu, exp_mod(UInt(U8), x, y, modu))

\* u8::add_mod_unsafe(x, y, modu) on operands below modu
AddModUnsafe ==
    /\ pc = "idle"
    /\ \E modu \in ArithModu : \E x \in ArithVals, y \in ArithVals :
          /\ x < modu /\ y < modu
          /\ ArithCall("add_mod_unsafe", x, y, modu, add_mod_unsafe(UInt(U8), x, y, modu))

\* u8::sub_mod_unsafe(x, y, modu) on operands below modu
SubModUnsafe ==
    /\ pc = "idle"
    /\ \E modu \in ArithModu : \E x \in ArithVals, y \in ArithVals :
          /\ x < modu /\ y < modu
          /\ ArithCall("sub_mod_unsafe", x, y, modu, sub_mod_unsafe(UInt(U8), x, y, modu))

\* u8::mult_mod_unsafe(x, y, modu) on operands below modu
MultModUnsafe ==
    /\ pc = "idle"
    /\ \E modu \in ArithModu : \E x \in ArithVals, y \in ArithVals :
          /\ x < modu /\ y < modu
          /\ ArithCall("mult_mod_unsafe", x, y, modu, mult_mod_unsafe(UInt(U8), x, y, modu))

\* u8::exp_mod_unsafe(base, ex, modu) on a base below modu
ExpModUnsafe ==
    /\ pc = "idle"
    /\ \E modu \in ArithModu : \E x \in ArithVals, y \in ArithVals :
          /\ x < modu
          /\ ArithCall("exp_mod_unsafe", x, y, modu, exp_mod_unsafe(UInt(U8), x, y, modu))

\* u8::multip_inv(x, modu), for every x of the width
MultipInv ==
    /\ pc = "idle"
    /\ \E x \in 0..U8Max, modu \in ArithModu :
          ArithCall("multip_inv", x, 0, modu, multip_inv(UInt(U8), x, modu))

\* The numbers 0..MaxPrimeArg of is_odd_prime: the lookup decides the primes
\* below 61 * 61 = 3721, Miller-Rabin the composites from 67 on and the
\* primes above 3721.
MaxPrimeArg == 4000

\* is_odd_prime::<u32>(num)
IsOddPrime ==
    /\ pc = "idle"
    /\ \E n \in 0..MaxPrimeArg :
          /\ call' = [op |-> "is_odd_prime", T |-> U32, num |-> n]
          /\ result' = With(UInt(U32), LAMBDA T : is_odd_prime(T, lit(T, n)))
    /\ pc' = "done"
    /\ UNCHANGED <<quad, engine_vars>>

\* u8::jacobi_symbol(x, n) for every x of the width and every odd n
JacobiSymbol ==
    /\ pc = "idle"
    /\ \E x \in 0..U8Max, n \in {m \in 1..U8Max : m % 2 = 1} :
          /\ call' = [op |-> "jacobi_symbol", T |-> U8, x |-> x, n |-> n]
          /\ result' = jacobi_symbol(UInt(U8), x, n)
    /\ pc' = "done"
    /\ UNCHANGED <<quad, engine_vars>>

\* i8::cast_to_unsigned(x, modu)
CastToUnsigned ==
    /\ pc = "idle"
    /\ \E x \in I8Min..I8Max, modu \in 0..U8Max :
          /\ call' = [op |-> "cast_to_unsigned", T |-> U8, x |-> x, modu |-> modu]
          /\ result' = cast_to_unsigned(UInt(U8), x, modu)
    /\ pc' = "done"
    /\ UNCHANGED <<quad, engine_vars>>

\* LinEq::<u8>::solve
LinEqSolve ==
    /\ pc = "idle"
    /\ \E modu \in LinModu, a \in LinCoef, b \in LinCoef, c \in LinCoef :
          /\ call' = [op |-> "LinEq", T |-> U8, a |-> a, b |-> b, c |-> c, modu |-> modu]
          /\ result' = lin_solve(UInt(U8), [a |-> a, b |-> b, c |-> c, modu |-> modu])
    /\ pc' = "done"
    /\ UNCHANGED <<quad, engine_vars>>

\* LinEqSigned::<i8, u8>::solve
LinEqSignedSolve ==
    /\ pc = "idle"
    /\ \E modu \in SignedModu, a \in SignedCoef, b \in SignedCoef, c \in SignedCoef :
          /\ call' = [op |-> "LinEqSigned", T |-> U8, a |-> a, b |-> b, c |-> c,
                      modu |-> modu]
          /\ result' = lin_signed_solve(UInt(U8), [a |-> a, b |-> b, c |-> c, modu |-> modu])
    /\ pc' = "done"
    /\ UNCHANGED <<quad, engine_vars>>

-----------------------------------------------------------------------------
(* QuadEq and QuadEqSigned.                                                *)

\* QuadEq::solve up to the match on is_odd_prime: the value it returns, or
\* the tag "Factorize" with the local quad when the modulus is not an odd
\* prime and is handed to Factors::factorize
quad_solve_head(T, this) ==
    IF le(T, this.modu, lit(T, 1)) THEN None
    ELSE With(rem(T, this.a, this.modu) = lit(T, 0), LAMBDA a_is_zero :
             IF a_is_zero /\ rem(T, this.b, this.modu) = lit(T, 0) THEN None
             ELSE IF a_is_zero
             THEN lin_solve(T, [a |-> this.b, b |-> this.c, c |-> this.d, modu |-> this.modu])
             ELSE With(IF lt(T, lit(T, 0), this.c)
                       THEN [this EXCEPT !.d = sub_mod(T, this.d, this.c, this.modu),
                                         !.c = lit(T, 0)]
                       ELSE this, LAMBDA q :
                      IF is_odd_prime(T, q.modu)
                      THEN IF q.a = lit(T, 1) /\ q.b = lit(T, 0)
                           THEN solve_quad_residue_odd_prime_mod(T, q)
                           ELSE solve_quad_simple(T, q)
                      ELSE [tag |-> "Factorize", val |-> q]))

\* the calling thread after the head of QuadEq::solve returned h
QuadEnter(h) ==
    IF h.tag = "Factorize"
    THEN /\ quad' = h.val
         /\ self' = [num |-> h.val.modu, factors |-> <<>>]
         /\ result' = Pending
         /\ pc' = "factorize"
    ELSE /\ quad' = None
         /\ self' = self
         /\ result' = h
         /\ pc' = "done"

\* QuadEq::<u8>::solve
QuadEqSolve ==
    /\ pc = "idle"
    /\ \E this \in QuadCalls :
          /\ call' = [op |-> "QuadEq", T |-> U8, eq |-> this]
          /\ QuadEnter(quad_solve_head(UInt(U8), this))
    /\ UNCHANGED <<num, frames, ec_factors, race_vars, prev_factors>>

\* the powers of an odd prime and the powers of two of a u8 modulus
RECURSIVE Exponent(_, _)
Exponent(q, p) == IF q % p # 0 THEN 0 ELSE 1 + Exponent(q \div p, p)
OddPrimePower(q, p) == IsPrimeNat(p) /\ p % 2 = 1 /\ Pow(p, Exponent(q, p)) = q
OddPrimePowers == {q \in 3..U8Max : \E p \in 3..q : OddPrimePower(q, p)}
TwoPowers == {Pow(2, m) : m \in 1..(U8 - 1)}

\* the equations x^2 = d modulo a prime power, for d in 0..MaxPureD and at the
\* top of the width
MaxPureD == 40
PureCalls ==
    [a : {1}, b : {0}, c : {0}, d : 0..MaxPureD \cup EdgeCoef, modu : OddPrimePowers \cup TwoPowers]

\* QuadEq::<u8>::solve on x^2 = d (mod p^k)
QuadEqSolvePure ==
    /\ pc = "idle"
    /\ \E this \in PureCalls :
          /\ call' = [op |-> "QuadEq", T |-> U8, eq |-> this]
          /\ QuadEnter(quad_solve_head(UInt(U8), this))
    /\ UNCHANGED <<num, frames, ec_factors, race_vars, prev_factors>>

\* the squares of the even numbers below 16
EvenSquares == {(2 * i) * (2 * i) : i \in 1..(U8 - 1)}

\* the equations modulo a power of two
TwoPowerCalls ==
    [a : QuadCoef, b : QuadCoef, c : QuadCoef, d : QuadCoef \cup EvenSquares, modu : TwoPowers]

\* QuadEq::<u8>::solve on a modulus 2^m
QuadEqSolveTwoPower ==
    /\ pc = "idle"
    /\ \E this \in TwoPowerCalls :
          /\ call' = [op |-> "QuadEq", T |-> U8, eq |-> this]
          /\ QuadEnter(quad_solve_head(UInt(U8), this))
    /\ UNCHANGED <<num, frames, ec_factors, race_vars, prev_factors>>

\* the odd primes that divide the u8 number n
OddPrimeFactors(n) == {p \in 3..n : p % 2 = 1 /\ IsPrimeNat(p) /\ n % p = 0}

\* solve_quad_composite_mod for one odd prime factor p of the modulus with
\* a = 0 (mod p): solve_quad_simple on the equation with modu = p, which
\* returns what solve_linear_singular returns
SolveLinearSingular ==
    /\ pc = "idle"
    /\ \E this \in QuadCalls :
          With2(UInt(U8), quad_solve_head(UInt(U8), this), LAMBDA T, h :
              /\ h.tag = "Factorize"
              /\ \E p \in OddPrimeFactors(this.modu) :
                    /\ h.val.a % p = 0
                    /\ call' = [op |-> "solve_linear_singular", T |-> U8, eq |-> this,
                                prm_factor |-> p]
                    /\ quad' = [h.val EXCEPT !.modu = p]
                    /\ result' = solve_quad_simple(T, [h.val EXCEPT !.modu = p]))
    /\ pc' = "done"
    /\ UNCHANGED engine_vars

\* Coefficients 0..MaxLiftCoef of the lifted polynomials, next to the values at
\* the top of the width, and the prime powers p^k of the width with p up to
\* MaxLiftPrime.
MaxLiftCoef == 4
MaxLiftPrime == 13
LiftCoef == 0..MaxLiftCoef \cup EdgeCoef
LiftPowers ==
    {pk \in (2..MaxLiftPrime) \X (1..(U8 - 1)) :
        IsPrimeNat(pk[1]) /\ Pow(pk[1], pk[2]) <= U8Max}

\* the roots of a*x^2 + b*x - d modulo modu, ascending
poly_roots(T, eq) ==
    set_to_seq(T, {x \in 0..(eq.modu - 1) : lift_poly(T, eq, x, eq.modu) = lit(T, 0)})

\* lift_with_hensel_method(sub_sols, prm_k) on an equation whose modu is a
\* prime and with the roots modulo that prime as sub_sols
LiftWithHenselMethod ==
    /\ pc = "idle"
    /\ \E pk \in LiftPowers, a \in LiftCoef, b \in LiftCoef, d \in LiftCoef :
          With2(UInt(U8), [a |-> a, b |-> b, c |-> 0, d |-> d, modu |-> pk[1]],
                LAMBDA T, this :
          With(poly_roots(T, this), LAMBDA sub_sols :
              /\ call' = [op |-> "lift_with_hensel_method", T |-> U8, eq |-> this,
                          sub_sols |-> sub_sols, prm_k |-> pk[2]]
              /\ result' = lift_with_hensel_method(T, this, sub_sols, pk[2])))
    /\ pc' = "done"
    /\ UNCHANGED <<quad, engine_vars>>

\* Moduli of the sub-solutions handed to combine_solution_for_compo_modu:
\* powers of different primes, in the order of the primes, with a product of
\* the u8 width.
CombineModuli ==
    {<<3, 5>>, <<4, 9>>, <<8, 27>>, <<5, 49>>, <<3, 83>>, <<2, 127>>, <<2, 3, 5>>, <<3, 5, 7>>,
     <<16, 3, 5>>, <<3, 5, 17>>, <<2, 3, 5, 7>>}

\* the sub-solutions of one modulus q: a choice of one to MaxSubSols of the
\* values 0, 1 and q - 1
MaxSubSols == 2
CombineChoices == {c \in SUBSET {0, 1, 2} : c # {} /\ Cardinality(c) <= MaxSubSols}
sub_solutions(q, choice) ==
    set_to_seq(UInt(U8), {IF j = 2 THEN q - 1 ELSE j : j \in choice})

\* the sum of the first i elements of a sequence of numbers
RECURSIVE prefix_sum(_, _)
prefix_sum(counts, i) == IF i = 0 THEN 0 ELSE counts[i] + prefix_sum(counts, i - 1)

\* combine_solution_for_compo_modu on the vectors solve_quad_composite_mod
\* builds from the sub-solutions of every modulus
CombineSolutionForCompoModu ==
    /\ pc = "idle"
    /\ \E qs \in CombineModuli : \E choice \in [1..Len(qs) -> CombineChoices] :
          With3(UInt(U8), [i \in 1..Len(qs) |-> sub_solutions(qs[i], choice[i])],
                product(UInt(U8), qs), LAMBDA T, subs, compo_modu :
          With2(concat([i \in 1..Len(qs) |->
                           [j \in 1..Len(subs[i]) |-> <<subs[i][j], qs[i]>>]]),
                [i \in 1..Len(qs) |-> Len(subs[i])], LAMBDA all_sols, modu_sol_counts :
          With([i \in 1..Len(qs) |-> prefix_sum(modu_sol_counts, i - 1)],
               LAMBDA modu_start_indices :
              /\ call' = [op |-> "combine_solution_for_compo_modu", T |-> U8, moduli |-> qs,
                          sub_sols |-> subs, compo_modu |-> compo_modu]
              /\ result' = combine_solution_for_compo_modu(T, all_sols, compo_modu,
                                                           modu_start_indices,
                                                           modu_sol_counts))))
    /\ pc' = "done"
    /\ UNCHANGED <<quad, engine_vars>>

\* QuadEq::<u32>::solve and QuadEq::<u64>::solve
QuadEqSolveWide ==
    /\ pc = "idle"
    /\ \E w \in WideQuads :
          With(UInt(w.T), LAMBDA T :
          With([a |-> lit(T, w.a), b |-> lit(T, w.b), c |-> lit(T, w.c), d |-> lit(T, w.d),
                modu |-> product(T, w.primes)], LAMBDA this :
              /\ call' = [op |-> "QuadEq", T |-> w.T, eq |-> this]
              /\ QuadEnter(quad_solve_head(T, this))))
    /\ UNCHANGED <<num, frames, ec_factors, race_vars, prev_factors>>

\* QuadEqSigned::<i8, u8>::solve
QuadEqSignedSolve ==
    /\ pc = "idle"
    /\ \E modu \in 0..MaxQuadSignedModu, a \in QuadSignedCoef, b \in QuadSignedCoef,
          c \in {0 - 1, 0, 1}, d \in QuadSignedCoef :
          With2(UInt(U8), [a |-> a, b |-> b, c |-> c, d |-> d, modu |-> modu],
                LAMBDA T, this :
          With(quad_signed_cast(T, this), LAMBDA quad_eq :
              /\ call' = [op |-> "QuadEqSigned", T |-> U8, eq |-> this]
              /\ QuadEnter(IF quad_eq.tag = "Some" THEN quad_solve_head(T, quad_eq.val)
                           ELSE quad_eq)))
    /\ UNCHANGED <<num, frames, ec_factors, race_vars, prev_factors>>

\* the end of QuadEq::solve: prime_factor_repr and solve_quad_composite_mod
QuadSolveComposite ==
    /\ pc = "factorized"
    /\ call.op \in {"QuadEq", "QuadEqSigned"}
    /\ result' = With(UInt(call.T), LAMBDA T :
                      solve_quad_composite_mod(T, quad,
                                               prime_factor_repr(T, self.num, self.factors)))
    /\ pc' = "done"
    /\ UNCHANGED <<call, quad, engine_vars>>

-----------------------------------------------------------------------------
(* Factors: factorize() and its worker race.                               *)

\* Thread count of one race: 5 in the source.  Worker 0 runs the wheel, the
\* others run elliptic curves.
MAX_WORKERS == 2

\* Curves one elliptic worker tries in one race: 125 in the source.
MAX_ELLIPTIC_CURVES == 2

\* An elliptic worker that found nothing rereads the shared number when its
\* curve_count is a multiple of this: 32 in the source (curve_count & 31 == 0).
SYNC_PERIOD == 2

WHEEL_INC ==
    <<2, 4, 2, 4, 6, 2, 6, 4, 2, 4, 6, 6, 2, 6, 4, 2, 6, 4, 6, 8, 4, 2, 4, 2, 4, 8, 6, 4, 6,
      2, 4, 6, 2, 6, 6, 4, 2, 4, 6, 2, 6, 4, 2, 4, 2, 10, 2, 10>>

\* k = 221 before the first wheel increment
WHEEL_START == 221

\* Factors::new(num).factorize() and, by FactorizeAgain, factorize() on the
\* struct once more: the check of num and self.factors.clear()
FactorsFactorize ==
    /\ pc = "idle"
    /\ \/ \E n \in 0..U8Max :
             /\ call' = [op |-> "Factors", T |-> U8, num |-> n, primes |-> prime_list(n, 2)]
             /\ self' = [num |-> n, factors |-> <<>>]
             /\ IF n <= 1 THEN result' = Panic /\ pc' = "done"
                ELSE result' = Pending /\ pc' = "factorize"
       \/ \E w \in WideNumbers :
             With(UInt(w.T), LAMBDA T :
             With(product(T, w.primes), LAMBDA n :
                 /\ call' = [op |-> "Factors", T |-> w.T, num |-> n,
                             primes |-> [i \in 1..Len(w.primes) |-> lit(T, w.primes[i])]]
                 /\ self' = [num |-> n, factors |-> <<>>]
                 /\ result' = Pending
                 /\ pc' = "factorize"))
    /\ UNCHANGED <<quad, num, frames, ec_factors, race_vars, prev_factors>>

\* factorize(): factorize_trial
FactorizeTrial ==
    /\ pc = "factorize"
    /\ With(factorize_trial(UInt(call.T), self.num), LAMBDA t :
           /\ self' = [self EXCEPT !.factors = t.factors]
           /\ num' = t.num)
    /\ pc' = "until_completed"
    /\ UNCHANGED <<call, quad, result, frames, ec_factors, race_vars, prev_factors>>

\* The threads of a race are the workers 0..MAX_WORKERS - 1 and, after them,
\* the thread that called spawn_workers.
MainThread == MAX_WORKERS

\* a MutexGuard goes out of scope: the mutex is free again
drop_held(guard) == guard
drop(guard) == {}

\* the workers spawn_workers starts for num
spawned(T, n) ==
    [w \in 0..(MAX_WORKERS - 1) |->
        [pc |-> "run", num |-> n, k |-> lit(T, WHEEL_START), wheel |-> 1, curve_count |-> 1,
         maybe_factor |-> lit(T, 1)]]

\* One iteration of the loop of factorize_until_completed, up to the threads
\* spawn_workers starts; pc "completed" is the return of the function.
FactorizeUntilCompleted ==
    /\ pc = "until_completed"
    /\ With(UInt(call.T), LAMBDA T :
           IF ~lt(T, lit(T, 1), num)
           THEN /\ pc' = "completed"
                /\ UNCHANGED <<self, num, race_vars>>
           ELSE With(factorize_fermat(T, num, 2), LAMBDA f :
                IF f.num = lit(T, 1)
           THEN /\ self' = [self EXCEPT !.factors = self.factors \o f.factors]
                /\ num' = f.num
                /\ pc' = "completed"
                /\ UNCHANGED race_vars
           ELSE IF is_odd_prime(T, f.num)
           THEN /\ self' = [self EXCEPT !.factors = Append(self.factors \o f.factors, f.num)]
                /\ num' = f.num
                /\ pc' = "completed"
                /\ UNCHANGED race_vars
           ELSE /\ self' = [self EXCEPT !.factors = self.factors \o f.factors]
                /\ num' = f.num
                /\ maybe_factors' = [num |-> f.num, factors |-> <<>>]
                /\ mutex' = {}
                /\ workers' = spawned(T, f.num)
                /\ channel' = <<>>
                /\ completed' = None
                /\ pc' = "recv"))
    /\ UNCHANGED <<call, quad, result, frames, ec_factors, prev_factors>>

\* spawn_workers has started its threads and has not returned
InRace == pc \in {"recv", "lock", "snapshot"}

\* the wheel: k after the increments up to the first k with k > num / k or
\* with num % k == 0, and the place in wheel_inc after it
RECURSIVE wheel_scan(_, _, _, _)
wheel_scan(T, n, k, wheel) ==
    With2(add(T, k, lit(T, WHEEL_INC[wheel])), (wheel % Len(WHEEL_INC)) + 1,
          LAMBDA k1, wheel1 :
        IF lt(T, div(T, n, k1), k1) \/ rem(T, n, k1) = lit(T, 0)
        THEN [k |-> k1, wheel |-> wheel1]
        ELSE wheel_scan(T, n, k1, wheel1))

\* the divisions by k that record nothing
RECURSIVE wheel_divide_unrecorded(_, _, _, _)
wheel_divide_unrecorded(T, n, k, fs) ==
    With(div(T, n, k), LAMBDA n1 :
        IF rem(T, n1, k) # lit(T, 0) THEN [num |-> n1, factors |-> fs]
        ELSE wheel_divide_unrecorded(T, n1, k, fs))

\* all of num recorded as a prime
wheel_divide_whole(T, n, k, fs) == [num |-> lit(T, 1), factors |-> Append(fs, <<n, TRUE>>)]

\* the inner loop of wheel_worker: num and the shared factors after it
RECURSIVE wheel_divide(_, _, _, _)
wheel_divide(T, n, k, fs) ==
    With2(div(T, n, k), Append(fs, <<k, TRUE>>), LAMBDA n1, fs1 :
        IF rem(T, n1, k) # lit(T, 0) THEN [num |-> n1, factors |-> fs1]
        ELSE wheel_divide(T, n1, k, fs1))

\* wheel_worker: the scan to the next k that ends it or divides num; both
\* cases go on to maybe_factors.lock()
WheelWorker ==
    /\ InRace
    /\ workers[0].pc = "run"
    /\ With2(workers[0], wheel_scan(UInt(call.T), workers[0].num, workers[0].k, workers[0].wheel),
             LAMBDA me, s :
           workers' = [workers EXCEPT ![0] = [me EXCEPT !.k = s.k, !.wheel = s.wheel,
                                                        !.pc = "acquire"]])
    /\ UNCHANGED <<call, quad, pc, result, self, num, frames, ec_factors, maybe_factors, mutex,
                   channel, completed, prev_factors>>

\* maybe_factors.lock() of worker w returns
WorkerLock(w) ==
    /\ InRace
    /\ workers[w].pc = "acquire"
    /\ mutex = {}
    /\ mutex' = {w}
    /\ workers' = [workers EXCEPT ![w] = [@ EXCEPT !.pc = "locked"]]
    /\ UNCHANGED <<call, quad, pc, result, self, num, frames, ec_factors, maybe_factors,
                   channel, completed, prev_factors>>

\* wheel_worker with the guard: the end of the wheel at k > num / k, or the
\* factor k of num
WheelWorkerLocked ==
    /\ InRace
    /\ workers[0].pc = "locked"
    /\ With2(UInt(call.T), workers[0], LAMBDA T, me :
       With({maybe_factors.factors[i][1] : i \in 1..Len(maybe_factors.factors)}, LAMBDA found :
           IF lt(T, div(T, me.num, me.k), me.k)
           THEN /\ maybe_factors' = [num |-> lit(T, 1),
                                     factors |-> Append(maybe_factors.factors, <<me.num, FALSE>>)]
                /\ workers' = [workers EXCEPT ![0] = [me EXCEPT !.num = lit(T, 1),
                                                               !.pc = "send"]]
           ELSE IF lt(T, maybe_factors.num, me.k) \/ me.k \in found
           THEN /\ maybe_factors' = maybe_factors
                /\ workers' = [workers EXCEPT ![0] = [me EXCEPT !.num = maybe_factors.num,
                                                               !.pc = "send"]]
           ELSE With(wheel_divide(T, me.num, me.k, maybe_factors.factors), LAMBDA d :
                    /\ maybe_factors' = [num |-> d.num, factors |-> d.factors]
                    /\ workers' = [workers EXCEPT ![0] = [me EXCEPT !.num = d.num,
                                                                   !.pc = "run"]])))
    /\ mutex' = drop(mutex)
    /\ UNCHANGED <<call, quad, pc, result, self, num, frames, ec_factors, channel, completed,
                   prev_factors>>

\* the divisors of the number call.num that was multiplied from call.primes
Divisors(T) ==
    {product_of(T, call.primes, S) : S \in SUBSET (1..Len(call.primes))}

\* EllipticCurve::compute_maybe_factor_from_curve(n): 1, n, or a divisor of n
\* between them
CurveOutcomes(T, n) ==
    {lit(T, 1), n} \cup {m \in Divisors(T) : lt(T, lit(T, 1), m) /\ lt(T, m, n)
                                            /\ rem(T, n, m) = lit(T, 0)}

\* the branch of the loop body of elliptic_worker that maybe_factor selects
elliptic_branch(T, me) ==
    IF lt(T, lit(T, 1), me.maybe_factor) /\ lt(T, me.maybe_factor, me.num) THEN "factor"
    ELSE IF me.maybe_factor = me.num /\ is_odd_prime(T, me.maybe_factor) THEN "prime"
    ELSE IF me.curve_count % SYNC_PERIOD = 0 THEN "sync"
    ELSE "none"

\* elliptic_worker: the test of its loop and the curve computation of one
\* iteration, up to the maybe_factors.lock() of the branch taken
EllipticWorker(w) ==
    /\ InRace
    /\ workers[w].pc = "run"
    /\ With2(UInt(call.T), workers[w], LAMBDA T, me :
           IF ~(lt(T, lit(T, 1), me.num) /\ me.curve_count <= MAX_ELLIPTIC_CURVES)
           THEN workers' = [workers EXCEPT ![w] = [me EXCEPT !.pc = "send"]]
           ELSE \E maybe_factor \in CurveOutcomes(T, me.num) :
                  With([me EXCEPT !.maybe_factor = maybe_factor], LAMBDA me1 :
                      IF elliptic_branch(T, me1) = "none"
                      THEN workers' = [workers EXCEPT ![w] =
                                          [me EXCEPT !.curve_count = me.curve_count + 1]]
                      ELSE workers' = [workers EXCEPT ![w] = [me1 EXCEPT !.pc = "acquire"]]))
    /\ UNCHANGED <<call, quad, pc, result, self, num, frames, ec_factors, maybe_factors, mutex,
                   channel, completed, prev_factors>>

\* elliptic_worker with the guard: the rest of the iteration
EllipticWorkerLocked(w) ==
    /\ InRace
    /\ workers[w].pc = "locked"
    /\ With3(UInt(call.T), workers[w], workers[w].maybe_factor, LAMBDA T, me, maybe_factor :
       With(elliptic_branch(T, me), LAMBDA branch :
           LET next(n) == [workers EXCEPT ![w] = [me EXCEPT !.num = n, !.pc = "run",
                               !.maybe_factor = lit(T, 1),
                               !.curve_count = me.curve_count + 1]]
           IN  IF branch = "factor"
               THEN IF lt(T, maybe_factors.num, maybe_factor)
                    THEN /\ workers' = next(maybe_factors.num)
                         /\ maybe_factors' = maybe_factors
                    ELSE With2(div(T, me.num, maybe_factor),
                               Append(maybe_factors.factors, <<maybe_factor, FALSE>>),
                               LAMBDA n1, fs1 :
                             IF is_odd_prime(T, n1)
                             THEN /\ workers' = next(lit(T, 1))
                                  /\ maybe_factors' = [num |-> lit(T, 1),
                                         factors |-> Append(fs1, <<n1, TRUE>>)]
                             ELSE /\ workers' = next(n1)
                                  /\ maybe_factors' = [num |-> n1, factors |-> fs1])
               ELSE IF branch = "prime"
               THEN IF maybe_factor = maybe_factors.num
                    THEN /\ workers' = next(lit(T, 1))
                         /\ maybe_factors' = [num |-> lit(T, 1),
                                factors |-> Append(maybe_factors.factors,
                                                   <<maybe_factor, TRUE>>)]
                    ELSE /\ workers' = next(maybe_factors.num)
                         /\ maybe_factors' = maybe_factors
               ELSE /\ workers' = next(maybe_factors.num)
                    /\ maybe_factors' = maybe_factors))
    /\ mutex' = drop(mutex)
    /\ UNCHANGED <<call, quad, pc, result, self, num, frames, ec_factors, channel, completed,
                   prev_factors>>

\* the message of a worker: num == T::one()
is_one_always(T, n) == TRUE
is_one(T, n) == n = lit(T, 1)

\* sender.send(t): the message joins the messages in flight
send_lost(ch, t) == ch
send(ch, t) == Append(ch, t)

\* the last statement of a worker: sender.send(num == T::one())
WorkerSend(w) ==
    /\ InRace
    /\ workers[w].pc = "send"
    /\ channel' = send(channel, is_one(UInt(call.T), workers[w].num))
    /\ workers' = [workers EXCEPT ![w] = [@ EXCEPT !.pc = "done"]]
    /\ UNCHANGED <<call, quad, pc, result, self, num, frames, ec_factors, maybe_factors, mutex,
                   completed, prev_factors>>

\* spawn_workers: receiver.recv() returns the first message
SpawnWorkersRecv ==
    /\ pc = "recv"
    /\ channel # <<>>
    /\ completed' = Some(Head(channel))
    /\ channel' = Tail(channel)
    /\ pc' = "lock"
    /\ UNCHANGED <<call, quad, result, self, num, frames, ec_factors, maybe_factors, mutex,
                   workers, prev_factors>>

\* spawn_workers: maybe_factors_mtx.lock() returns
SpawnWorkersLock ==
    /\ pc = "lock"
    /\ mutex = {}
    /\ mutex' = {MainThread}
    /\ pc' = "snapshot"
    /\ UNCHANGED <<call, quad, result, self, num, frames, ec_factors, maybe_factors, workers,
                   channel, completed, prev_factors>>

\* spawn_workers: the factors and the number it takes with the guard, and its
\* return.  The workers run on, detached, on a MaybeFactors that nothing reads
\* again.
SpawnWorkersReturn ==
    /\ pc = "snapshot"
    /\ ec_factors' = maybe_factors.factors
    /\ num' = IF completed.val THEN lit(UInt(call.T), 1) ELSE maybe_factors.num
    /\ maybe_factors' = [num |-> 0, factors |-> <<>>]
    /\ mutex' = drop(mutex)
    /\ workers' = <<>>
    /\ channel' = <<>>
    /\ completed' = None
    /\ pc' = "ec_factors"
    /\ UNCHANGED <<call, quad, result, self, frames, prev_factors>>

\* factorize_elliptic: one iteration of its loop over ec_factors, or its return
FactorizeElliptic ==
    /\ pc = "ec_factors"
    /\ IF ec_factors = <<>>
       THEN /\ pc' = "until_completed"
            /\ UNCHANGED <<self, num, frames, ec_factors>>
       ELSE LET ec_factor == Head(ec_factors)[1]
                is_sure_prime == Head(ec_factors)[2]
            IN  IF is_sure_prime \/ is_odd_prime(UInt(call.T), ec_factor)
                THEN /\ self' = [self EXCEPT !.factors = Append(self.factors, ec_factor)]
                     /\ ec_factors' = Tail(ec_factors)
                     /\ pc' = "ec_factors"
                     /\ UNCHANGED <<num, frames>>
                ELSE /\ frames' = Append(frames, [self |-> self, num |-> num,
                                                  ec_factors |-> Tail(ec_factors)])
                     /\ self' = [num |-> ec_factor, factors |-> <<>>]
                     /\ num' = ec_factor
                     /\ ec_factors' = <<>>
                     /\ pc' = "until_completed"
    /\ UNCHANGED <<call, quad, result, race_vars, prev_factors>>

\* factorize_elliptic after factors_inner.factorize_until_completed returned:
\* the factors of factors_inner are pushed
FactorizeEllipticInner ==
    /\ pc = "completed"
    /\ frames # <<>>
    /\ LET outer == frames[Len(frames)]
       IN  /\ self' = [outer.self EXCEPT !.factors = outer.self.factors \o self.factors]
           /\ num' = outer.num
           /\ ec_factors' = outer.ec_factors
    /\ frames' = SubSeq(frames, 1, Len(frames) - 1)
    /\ pc' = "ec_factors"
    /\ UNCHANGED <<call, quad, result, race_vars, prev_factors>>

\* factorize(): prune_duplicate_factors
FactorizePrune ==
    /\ pc = "completed"
    /\ frames = <<>>
    /\ self' = [self EXCEPT !.factors = prune_duplicate_factors(UInt(call.T), self.num, self.factors)]
    /\ pc' = "factorized"
    /\ UNCHANGED <<call, quad, result, num, frames, ec_factors, race_vars, prev_factors>>

\* prime_factor_repr() on the factorized struct
PrimeFactorRepr ==
    /\ pc = "factorized"
    /\ call.op = "Factors"
    /\ result' = Some(prime_factor_repr(UInt(call.T), self.num, self.factors))
    /\ pc' = "done"
    /\ UNCHANGED <<call, quad, engine_vars>>

\* factorize() on the factorized struct once more
FactorizeAgain ==
    /\ pc = "done"
    /\ call.op = "Factors"
    /\ result.tag = "Some"
    /\ prev_factors = None
    /\ prev_factors' = Some(self.factors)
    /\ self' = [self EXCEPT !.factors = <<>>]
    /\ result' = Pending
    /\ pc' = "factorize"
    /\ UNCHANGED <<call, quad, num, frames, ec_factors, race_vars>>

\* Lists for prune_duplicate_factors on a u8 number n: the primes of n,
\* largest first, and after them up to MaxPruneExtra further copies of primes
\* of n, as workers that find the same factor leave them.
MaxPruneExtra == 2
PruneLists(n) ==
    LET primes == prime_list(n, 2)
    IN  {reverse(primes) \o extra :
            extra \in UNION {[1..m -> Range(primes)] : m \in 0..MaxPruneExtra}}

\* prune_duplicate_factors on a Factors::<u8> with the fields num and factors
PruneDuplicateFactors ==
    /\ pc = "idle"
    /\ \E n \in 2..U8Max : \E fs \in PruneLists(n) :
          /\ call' = [op |-> "prune_duplicate_factors", T |-> U8, num |-> n, factors |-> fs]
          /\ result' = Some(prune_duplicate_factors(UInt(U8), n, fs))
    /\ pc' = "done"
    /\ UNCHANGED <<quad, engine_vars>>

-----------------------------------------------------------------------------
(* Specifications.                                                         *)

Next ==
    \/ AddMod
    \/ SubMod
    \/ MultMod
    \/ ExpMod
    \/ AddModUnsafe
    \/ SubModUnsafe
    \/ MultModUnsafe
    \/ ExpModUnsafe
    \/ MultipInv
    \/ IsOddPrime
    \/ JacobiSymbol
    \/ CastToUnsigned
    \/ LinEqSolve
    \/ LinEqSignedSolve
    \/ QuadEqSolve
    \/ QuadEqSolvePure
    \/ QuadEqSolveTwoPower
    \/ SolveLinearSingular
    \/ LiftWithHenselMethod
    \/ CombineSolutionForCompoModu
    \/ QuadEqSolveWide
    \/ QuadEqSignedSolve
    \/ QuadSolveComposite
    \/ FactorsFactorize
    \/ FactorizeTrial
    \/ FactorizeUntilCompleted
    \/ FactorizePrune
    \/ WheelWorker
    \/ WheelWorkerLocked
    \/ \E w \in 1..(MAX_WORKERS - 1) : EllipticWorker(w)
    \/ \E w \in 1..(MAX_WORKERS - 1) : EllipticWorkerLocked(w)
    \/ \E w \in 0..(MAX_WORKERS - 1) : WorkerLock(w)
    \/ \E w \in 0..(MAX_WORKERS - 1) : WorkerSend(w)
    \/ SpawnWorkersRecv
    \/ SpawnWorkersLock
    \/ SpawnWorkersReturn
    \/ FactorizeElliptic
    \/ FactorizeEllipticInner
    \/ PrimeFactorRepr
    \/ FactorizeAgain
    \/ PruneDuplicateFactors

Spec == Init /\ [][Next]_vars

\* the kernel of modular arithmetic at u8
NextArith ==
    \/ AddMod
    \/ SubMod
    \/ MultMod
    \/ ExpMod
    \/ AddModUnsafe
    \/ SubModUnsafe
    \/ MultModUnsafe
    \/ ExpModUnsafe
    \/ MultipInv
SpecArith == Init /\ [][NextArith]_vars

\* is_odd_prime alone
NextPrime == IsOddPrime
SpecPrime == Init /\ [][NextPrime]_vars

\* jacobi_symbol alone
NextJacobi == JacobiSymbol
SpecJacobi == Init /\ [][NextJacobi]_vars

\* i8::cast_to_unsigned alone
NextCast == CastToUnsigned
SpecCast == Init /\ [][NextCast]_vars

\* LinEq::solve alone
NextLin == LinEqSolve
SpecLin == Init /\ [][NextLin]_vars

\* the four solvers at u8
NextSolve ==
    \/ LinEqSolve
    \/ LinEqSignedSolve
    \/ QuadEqSolve
    \/ QuadEqSignedSolve
    \/ FactorizeTrial
    \/ FactorizeUntilCompleted
    \/ FactorizePrune
    \/ QuadSolveComposite
SpecSolve == Init /\ [][NextSolve]_vars

\* QuadEq::<u8>::solve alone
NextQuad ==
    \/ QuadEqSolve
    \/ FactorizeTrial
    \/ FactorizeUntilCompleted
    \/ FactorizePrune
    \/ QuadSolveComposite
SpecQuad == Init /\ [][NextQuad]_vars

\* QuadEq::<u32>::solve and QuadEq::<u64>::solve alone
NextWide ==
    \/ QuadEqSolveWide
    \/ FactorizeTrial
    \/ FactorizeUntilCompleted
    \/ FactorizePrune
    \/ QuadSolveComposite
SpecWide == Init /\ [][NextWide]_vars

\* QuadEq::<u8>::solve on x^2 = d modulo a prime power
NextPure ==
    \/ QuadEqSolvePure
    \/ FactorizeTrial
    \/ FactorizeUntilCompleted
    \/ FactorizePrune
    \/ QuadSolveComposite
SpecPure == Init /\ [][NextPure]_vars

\* QuadEq::<u8>::solve modulo a power of two
NextTwoPower ==
    \/ QuadEqSolveTwoPower
    \/ FactorizeTrial
    \/ FactorizeUntilCompleted
    \/ FactorizePrune
    \/ QuadSolveComposite
SpecTwoPower == Init /\ [][NextTwoPower]_vars

\* the sub-solutions for an odd prime factor that divides a
NextSingular == SolveLinearSingular
SpecSingular == Init /\ [][NextSingular]_vars

\* lift_with_hensel_method alone
NextLift == LiftWithHenselMethod
SpecLift == Init /\ [][NextLift]_vars

\* combine_solution_for_compo_modu alone
NextCombine == CombineSolutionForCompoModu
SpecCombine == Init /\ [][NextCombine]_vars

\* prune_duplicate_factors alone
NextPrune == PruneDuplicateFactors
SpecPrune == Init /\ [][NextPrune]_vars

\* Factors::factorize and prime_factor_repr with the worker race
NextFactor ==
    \/ FactorsFactorize
    \/ FactorizeTrial
    \/ FactorizeUntilCompleted
    \/ FactorizePrune
    \/ WheelWorker
    \/ WheelWorkerLocked
    \/ \E w \in 1..(MAX_WORKERS - 1) : EllipticWorker(w)
    \/ \E w \in 1..(MAX_WORKERS - 1) : EllipticWorkerLocked(w)
    \/ \E w \in 0..(MAX_WORKERS - 1) : WorkerLock(w)
    \/ \E w \in 0..(MAX_WORKERS - 1) : WorkerSend(w)
    \/ SpawnWorkersRecv
    \/ SpawnWorkersLock
    \/ SpawnWorkersReturn
    \/ FactorizeElliptic
    \/ FactorizeEllipticInner
    \/ PrimeFactorRepr
    \/ FactorizeAgain
SpecFactor == Init /\ [][NextFactor]_vars

\* The threads of factorize() under a fair scheduler.  A thread that waits
\* for the mutex gets it if the mutex stays free: weak fairness of the lock
\* actions.  A thread that can run does run: "infinitely often it cannot run
\* or infinitely often it takes a step", the weak fairness of its steps with
\* the enabling condition written out and the step read off the thread's own
\* variables.
RunsMain ==
    \/ pc \in {"factorize", "until_completed", "ec_factors", "completed", "snapshot"}
    \/ pc = "recv" /\ channel # <<>>
RanMain == RunsMain /\ (pc' # pc \/ ec_factors' # ec_factors)
Runs(w) == InRace /\ workers[w].pc \in {"run", "locked", "send"}
Ran(w) == Runs(w) /\ InRace' /\ workers'[w] # workers[w]
FairThreads ==
    /\ WF_vars(SpawnWorkersLock)
    /\ ([]<>(~RunsMain)) \/ ([]<><<RanMain>>_vars)
    /\ \A w \in 0..(MAX_WORKERS - 1) :
          /\ WF_vars(WorkerLock(w))
          /\ ([]<>(~Runs(w))) \/ ([]<><<Ran(w)>>_vars)
SpecFactorFair == SpecFactor /\ FairThreads

-----------------------------------------------------------------------------
(* Properties.  The numbers of a u8 call are integers, so a property of a  *)
(* u8 call is stated with the arithmetic of the integers.                  *)

\* the ascending sequence of a finite set of integers
SortedSeq(S) ==
    [i \in 1..Cardinality(S) |-> CHOOSE x \in S : Cardinality({y \in S : y < x}) = i - 1]

\* the greatest common divisor of a >= 0 and n >= 1
Gcd(a, n) == CHOOSE g \in 1..n : /\ a % g = 0 /\ n % g = 0
                                 /\ \A h \in (g + 1)..n : a % h # 0 \/ n % h # 0

\* a call of the given operation has returned
Returned(op) == pc = "done" /\ call.op = op

\* C10 as stated: cast_to_unsigned(x, n), n >= 1, returns the least
\* non-negative residue of x modulo n for every x but the minimum of the
\* signed type, for which it returns None.
C10_CastIsLeastResidue ==
    (Returned("cast_to_unsigned") /\ call.modu >= 1) =>
        result = IF call.x = I8Min THEN None ELSE Some(call.x % call.modu)

\* C10 amended: cast_to_unsigned(x, n), n >= 1, returns None for the minimum
\* of the signed type, the least non-negative residue of x modulo n for every
\* other negative x, and x itself, reduced or not, for x >= 0.
C10_CastReducesNegatives ==
    (Returned("cast_to_unsigned") /\ call.modu >= 1) =>
        result = IF call.x = I8Min THEN None
                 ELSE IF call.x >= 0 THEN Some(call.x)
                 ELSE Some(call.x % call.modu)

\* a non-negative x above the modulus has been cast, and a negative x whose
\* absolute value is above the modulus
C10_Witness ==
    /\ Returned("cast_to_unsigned")
    /\ \/ call.x = 7 /\ call.modu = 5 /\ result = Some(7)
       \/ call.x = 0 - 7 /\ call.modu = 5 /\ result = Some(3)

\* the solutions of a*x + b = c (mod modu) in [0, modu)
LinSolutions(eq) == {x \in 0..(eq.modu - 1) : (eq.a * x + eq.b - eq.c) % eq.modu = 0}

\* C3: LinEq::solve, for n >= 2 and a not 0 modulo n, with g = gcd(a, n) and
\* c' = (c - b) mod n, returns None exactly when g does not divide c', and
\* otherwise exactly the g solutions in [0, n), in ascending order and n / g
\* apart.
C3_LinEqSolvesExactly ==
    (Returned("LinEq") /\ call.modu >= 2 /\ call.a % call.modu # 0) =>
        LET g == Gcd(call.a, call.modu)
        IN  /\ (result = None) <=> (((call.c - call.b) % call.modu) % g # 0)
            /\ result # None =>
                  /\ result = Some(SortedSeq(LinSolutions(call)))
                  /\ Len(result.val) = g
                  /\ \A i \in 1..(g - 1) : result.val[i + 1] - result.val[i] = call.modu \div g

\* LinEq::solve returned several solutions for coefficients above the modulus
\* and a modulus at the top of the width
C3_Witness ==
    /\ Returned("LinEq")
    /\ call.modu = 250 /\ call.a = 255 /\ call.b = 254 /\ call.c = 4
    /\ result = Some(<<0, 50, 100, 150, 200>>)

\* the type of the call
CallT == UInt(call.T)

\* x satisfies a*x^2 + b*x + c = d (mod modu), for values of type T; the
\* left side is computed without wrapping
QuadHolds(T, eq, x) ==
    IF Native(T) THEN (eq.a * x * x + eq.b * x + eq.c - eq.d) % eq.modu = 0
    ELSE T.W.div_rem[T.W.add[T.W.add[T.W.mul[eq.a, T.W.mul[x, x]], T.W.mul[eq.b, x]], eq.c],
                     eq.modu][2]
         = T.W.div_rem[eq.d, eq.modu][2]

\* C1: every value of a list returned by QuadEq::solve satisfies
\* a*x^2 + b*x + c = d (mod n), for every modulus n >= 2 and all coefficient
\* values of the width.
C1_QuadSolutionsSatisfy ==
    (Returned("QuadEq") /\ result.tag = "Some") =>
        \A i \in 1..Len(result.val) : QuadHolds(CallT, call.eq, result.val[i])

\* the solutions of a u8 equation in [0, modu)
QuadSolutions(eq) == {x \in 0..(eq.modu - 1) : QuadHolds(UInt(U8), eq, x)}

\* C2: QuadEq::solve returns the full solution set: for n >= 2 and a, b not
\* both 0 modulo n every solution in [0, n) is in the returned list, and None
\* is returned only when there is no solution.
C2_QuadSolveIsComplete ==
    (/\ Returned("QuadEq") /\ call.T = U8 /\ call.eq.modu >= 2
     /\ ~(call.eq.a % call.eq.modu = 0 /\ call.eq.b % call.eq.modu = 0)) =>
        /\ result.tag \in {"Some", "None"}
        /\ result.tag = "Some" => QuadSolutions(call.eq) \subseteq Range(result.val)
        /\ result = None => QuadSolutions(call.eq) = {}

\* C11: for an odd prime p and k >= 1, QuadEq{1, 0, 0, 0, p^k}.solve() returns
\* exactly the multiples of p^ceil(k/2) below p^k, in increasing order.
C11_ZeroSquareRootsOfPrimePower ==
    (Returned("QuadEq") /\ call.eq.d = 0) =>
        \A p \in 3..call.eq.modu :
            OddPrimePower(call.eq.modu, p) =>
                result = Some(SortedSeq({x \in 0..(call.eq.modu - 1) :
                    x % Pow(p, (Exponent(call.eq.modu, p) + 1) \div 2) = 0}))

\* solve() returned the multiples of 9 below 243 = 3^5
C11_Witness ==
    /\ Returned("QuadEq")
    /\ call.eq = [a |-> 1, b |-> 0, c |-> 0, d |-> 0, modu |-> 243]
    /\ result.tag = "Some"
    /\ Len(result.val) = 9

\* C17: for an odd prime p and any d, QuadEq{1, 0, 0, d, p}.solve() returns
\* [0] when d = 0 (mod p), the sorted pair [r, p - r] of the square roots of
\* d when d is a non-zero quadratic residue, and None when d is no residue.
C17_SquareRootsModuloOddPrime ==
    (Returned("QuadEq") /\ IsPrimeNat(call.eq.modu) /\ call.eq.modu % 2 = 1) =>
        LET p == call.eq.modu
            roots == {r \in 0..(p - 1) : (r * r - call.eq.d) % p = 0}
        IN  IF call.eq.d % p = 0 THEN result = Some(<<0>>)
            ELSE IF roots # {}
            THEN /\ result = Some(SortedSeq(roots))
                 /\ Len(result.val) = 2
                 /\ result.val[1] + result.val[2] = p
            ELSE result = None

\* C15: for a modulus n = 2^m, m >= 1, and a, b not both 0 modulo n,
\* QuadEq::solve returns exactly the x in [0, n) with a*x^2 + b*x + c = d
\* (mod n), and None exactly when there is none; also for x^2 = d' with d'
\* the square of an even number.
C15_PowerOfTwoSolvesExactly ==
    (/\ Returned("QuadEq") /\ call.eq.modu \in TwoPowers
     /\ ~(call.eq.a % call.eq.modu = 0 /\ call.eq.b % call.eq.modu = 0)) =>
        IF QuadSolutions(call.eq) = {} THEN result = None
        ELSE result = Some(SortedSeq(QuadSolutions(call.eq)))

\* base^ex modulo n, reduced at every step
RECURSIVE PowMod(_, _, _)
PowMod(base, ex, n) == IF ex = 0 THEN 1 % n ELSE (base * PowMod(base, ex - 1, n)) % n

\* the values of the u8 width
InU8(v) == 0 <= v /\ v <= U8Max

\* no intermediate value of add_mod_unsafe(x, y, modu) leaves the width
AddExact(x, y, modu) ==
    /\ InU8(modu - y)
    /\ IF x < modu - y THEN InU8(x + y)
       ELSE InU8(modu - Max(x, y)) /\ InU8(Min(x, y) - (modu - Max(x, y)))

\* no intermediate value of sub_mod_unsafe(x, y, modu) leaves the width
SubExact(x, y, modu) == IF x >= y THEN TRUE ELSE InU8(modu - (y - x))

\* no intermediate value of the loop of mult_mod_unsafe leaves the width
RECURSIVE MultExact(_, _, _, _)
MultExact(x, y, modu, res) ==
    IF y = 0 THEN TRUE
    ELSE /\ (y % 2 = 1) => AddExact(res, x, modu)
         /\ AddExact(x, x, modu)
         /\ MultExact(add_mod_unsafe(UInt(U8), x, x, modu), y \div 2, modu,
                      IF y % 2 = 1 THEN add_mod_unsafe(UInt(U8), res, x, modu) ELSE res)

\* no intermediate value of the loop of exp_mod_unsafe leaves the width
RECURSIVE ExpExact(_, _, _, _)
ExpExact(base, ex, modu, res) ==
    IF ex = 0 THEN TRUE
    ELSE /\ (ex % 2 = 1) => MultExact(res, base, modu, 0)
         /\ MultExact(base, base, modu, 0)
         /\ ExpExact(mult_mod_unsafe(UInt(U8), base, base, modu), ex \div 2, modu,
                     IF ex % 2 = 1 THEN mult_mod_unsafe(UInt(U8), res, base, modu) ELSE res)

\* the exact result of a kernel call, and whether its computation stayed in
\* the width
ArithExact(c) ==
    CASE c.op \in {"add_mod", "add_mod_unsafe"} ->
            [value |-> (c.x + c.y) % c.modu,
             exact |-> AddExact(c.x % c.modu, c.y % c.modu, c.modu)]
      [] c.op \in {"sub_mod", "sub_mod_unsafe"} ->
            [value |-> (c.x - c.y) % c.modu,
             exact |-> SubExact(c.x % c.modu, c.y % c.modu, c.modu)]
      [] c.op \in {"mult_mod", "mult_mod_unsafe"} ->
            [value |-> (c.x * c.y) % c.modu,
             exact |-> MultExact(c.x % c.modu, c.y % c.modu, c.modu, 0)]
      [] c.op \in {"exp_mod", "exp_mod_unsafe"} ->
            [value |-> PowMod(c.x, c.y, c.modu),
             exact |-> ExpExact(c.x % c.modu, c.y, c.modu, 1)]

ArithOps ==
    {"add_mod", "sub_mod", "mult_mod", "exp_mod",
     "add_mod_unsafe", "sub_mod_unsafe", "mult_mod_unsafe", "exp_mod_unsafe"}

\* C12: add_mod, sub_mod, mult_mod and exp_mod return the exact result modulo
\* n, a value in [0, n), and no intermediate value wraps, for all operands of
\* the width and every modulus n >= 2; the unsafe variants return the same
\* for operands in [0, n).
C12_KernelIsExact ==
    (pc = "done" /\ call.op \in ArithOps) =>
        /\ 0 <= result /\ result < call.modu
        /\ result = ArithExact(call).value
        /\ ArithExact(call).exact

\* mult_mod returned the product of two operands above the modulus 251
C12_Witness ==
    /\ pc = "done"
    /\ call.op = "mult_mod" /\ call.x = 254 /\ call.y = 255 /\ call.modu = 251
    /\ result = 12

\* no intermediate value of the loop of multip_inv leaves the width
RECURSIVE InvExact(_, _, _, _, _)
InvExact(modu, rem_, rem_new, inv, inv_new) ==
    IF rem_new = 0 THEN TRUE
    ELSE LET quo == rem_ \div rem_new
             prod == mult_mod_unsafe(UInt(U8), quo, inv_new, modu)
         IN  /\ InU8(quo * rem_new) /\ InU8(rem_ - quo * rem_new)
             /\ MultExact(quo, inv_new, modu, 0)
             /\ SubExact(inv, prod, modu)
             /\ InvExact(modu, rem_new, rem_ - quo * rem_new, inv_new,
                         sub_mod_unsafe(UInt(U8), inv, prod, modu))

\* C13: multip_inv(x, n), n >= 2, returns y with 1 <= y < n and x*y = 1
\* (mod n) when gcd(x, n) = 1, and 0 when gcd(x, n) > 1 (also for x = 0 mod
\* n); no intermediate value wraps.
C13_InverseOrZero ==
    (pc = "done" /\ call.op = "multip_inv") =>
        /\ IF call.x % call.modu # 0 /\ Gcd(call.x % call.modu, call.modu) = 1
           THEN /\ 1 <= result /\ result < call.modu
                /\ (call.x * result) % call.modu = 1
           ELSE result = 0
        /\ InvExact(call.modu, call.modu, call.x % call.modu, 0, 1)

\* multip_inv returned the inverse of 128 modulo the maximum of the width
C13_Witness ==
    /\ pc = "done"
    /\ call.op = "multip_inv" /\ call.x = 128 /\ call.modu = 255
    /\ result = 2

\* C14: is_odd_prime(n) is true exactly when n is an odd prime: false for
\* 0, 1, 2, the even numbers and the odd composites, true for the odd primes.
C14_IsOddPrimeIsExact ==
    (pc = "done" /\ call.op = "is_odd_prime") =>
        (result <=> (call.num % 2 = 1 /\ IsPrimeNat(call.num)))

\* is_odd_prime returned true for 3727, a prime the lookup does not decide
C14_Witness ==
    /\ pc = "done"
    /\ call.op = "is_odd_prime" /\ call.num = 3727
    /\ ~is_sure_odd_small_prime(UInt(U32), lit(UInt(U32), 3727))
    /\ result = TRUE

\* C16: when a = 0 (mod p) for an odd prime factor p of a composite modulus
\* n and a # 0 (mod n), the sub-solutions computed for p are exactly the x in
\* [0, p) with b*x = d - c (mod p): all residues, none, or the single value.
C16_SingularSubSolutions ==
    (pc = "done" /\ call.op = "solve_linear_singular") =>
        LET p == call.prm_factor
            sols == {x \in 0..(p - 1) : (call.eq.b * x + call.eq.c - call.eq.d) % p = 0}
        IN  IF sols = {} THEN result = None
            ELSE /\ result.tag = "Some"
                 /\ Range(result.val) = sols
                 /\ Len(result.val) = Cardinality(sols)

\* C18: lift_with_hensel_method(R, k) on an equation whose modulus is a
\* prime p, with R the roots of f(x) = a*x^2 + b*x - d modulo p, returns
\* exactly the x in [0, p^k) with f(x) = 0 (mod p^k), and None exactly when
\* there is none.
C18_HenselLiftsExactly ==
    (pc = "done" /\ call.op = "lift_with_hensel_method") =>
        LET n == Pow(call.eq.modu, call.prm_k)
            sols == {x \in 0..(n - 1) :
                        (call.eq.a * x * x + call.eq.b * x - call.eq.d) % n = 0}
        IN  IF sols = {} THEN result = None
            ELSE /\ result.tag = "Some"
                 /\ Range(result.val) = sols
                 /\ Len(result.val) = Cardinality(sols)

\* lift_with_hensel_method lifted the regular roots 1 and 2 of x^2 - 1 modulo
\* 3 to the two roots modulo 243, or the singular root 0 of x^2 modulo 3 to
\* the nine roots modulo 81
C18_Witness ==
    /\ pc = "done"
    /\ call.op = "lift_with_hensel_method"
    /\ call.eq.a = 1 /\ call.eq.b = 0 /\ call.eq.modu = 3
    /\ \/ call.eq.d = 1 /\ call.prm_k = 5 /\ result = Some(<<1, 242>>)
       \/ call.eq.d = 0 /\ call.prm_k = 4 /\ result.tag = "Some" /\ Len(result.val) = 9

\* the product of the numbers of a sequence
RECURSIVE ProductOf(_, _)
ProductOf(s, i) == IF i = 0 THEN 1 ELSE s[i] * ProductOf(s, i - 1)

\* C19: combine_solution_for_compo_modu, given non-empty sub-solution lists
\* S_1..S_r for pairwise coprime prime powers q_1..q_r with product n,
\* returns the sorted list of the |S_1|*...*|S_r| distinct values in [0, n)
\* that are, for the tuples (s_1, .., s_r), the x with x = s_i (mod q_i).
C19_CombineIsChineseRemainder ==
    (pc = "done" /\ call.op = "combine_solution_for_compo_modu") =>
        LET r == Len(call.moduli)
            xs == {x \in 0..(call.compo_modu - 1) :
                      \A i \in 1..r : x % call.moduli[i] \in Range(call.sub_sols[i])}
        IN  /\ result = Some(SortedSeq(xs))
            /\ Len(result.val) = ProductOf([i \in 1..r |-> Len(call.sub_sols[i])], r)

\* the sub-solutions [1, 3] modulo 4 and [0, 8] modulo 9 were combined to
\* four values below 36
C19_Witness ==
    /\ pc = "done"
    /\ call.op = "combine_solution_for_compo_modu"
    /\ call.moduli = <<4, 9>>
    /\ call.sub_sols = <<<<1, 3>>, <<0, 8>>>>
    /\ result = Some(<<9, 17, 27, 35>>)

\* the coefficients and the modulus of a solver call, as a record
CallEq == IF call.op \in {"QuadEq", "QuadEqSigned"} THEN call.eq ELSE call

SolverOps == {"LinEq", "LinEqSigned", "QuadEq", "QuadEqSigned"}

\* C4: every list returned by the solve method of LinEq, LinEqSigned, QuadEq
\* or QuadEqSigned is non-empty, strictly increasing and holds only residues
\* r with 0 <= r < n.
C4_SolutionListsAreSortedResidues ==
    (pc = "done" /\ call.op \in SolverOps /\ result.tag = "Some") =>
        /\ result.val # <<>>
        /\ \A i \in 1..(Len(result.val) - 1) : lt(CallT, result.val[i], result.val[i + 1])
        /\ \A i \in 1..Len(result.val) :
              le(CallT, lit(CallT, 0), result.val[i]) /\ lt(CallT, result.val[i], CallEq.modu)

\* the coefficients of a call of a signed solver
SignedCoefs(eq) ==
    IF call.op = "LinEqSigned" THEN {eq.a, eq.b, eq.c} ELSE {eq.a, eq.b, eq.c, eq.d}

\* the input of a solver call is degenerate: a modulus below 2, a signed
\* coefficient at the minimum of its type, a = 0 modulo n for a linear
\* solver, a = b = 0 modulo n for a quadratic solver
Degenerate ==
    \/ CallEq.modu < 2
    \/ call.op \in {"LinEqSigned", "QuadEqSigned"} /\ I8Min \in SignedCoefs(CallEq)
    \/ call.op \in {"LinEq", "LinEqSigned"} /\ CallEq.a % CallEq.modu = 0
    \/ call.op \in {"QuadEq", "QuadEqSigned"}
          /\ CallEq.a % CallEq.modu = 0 /\ CallEq.b % CallEq.modu = 0

\* C5: degenerate input yields None and never a panic.
C5_DegenerateInputIsNone ==
    (pc = "done" /\ call.op \in SolverOps /\ call.T = U8 /\ Degenerate) => result = None

\* QuadEq::<u8>::solve as one function: trial division by PRIMES leaves 1 of
\* every u8 modulus, so factorize() is factorize_trial and
\* prune_duplicate_factors
QuadSolveU8(this) ==
    LET T == UInt(U8)
        h == quad_solve_head(T, this)
        t == factorize_trial(T, h.val.modu)
    IN  IF h.tag # "Factorize" THEN h
        ELSE IF t.num # 1 THEN Pending
        ELSE solve_quad_composite_mod(T, h.val,
                 prime_factor_repr(T, h.val.modu,
                                   prune_duplicate_factors(T, h.val.modu, t.factors)))

\* C9: QuadEqSigned::solve and LinEqSigned::solve, for n >= 2 and no
\* coefficient at the signed minimum, return what the unsigned solver returns
\* on the representatives in [0, n) of the coefficients.
C9_SignedSolvesAsUnsigned ==
    (/\ pc = "done" /\ call.op \in {"LinEqSigned", "QuadEqSigned"}
     /\ CallEq.modu >= 2 /\ I8Min \notin SignedCoefs(CallEq)) =>
        LET n == CallEq.modu
        IN  IF call.op = "LinEqSigned"
            THEN result = lin_solve(UInt(U8), [a |-> call.a % n, b |-> call.b % n,
                                               c |-> call.c % n, modu |-> n])
            ELSE result = QuadSolveU8([a |-> call.eq.a % n, b |-> call.eq.b % n,
                                       c |-> call.eq.c % n, d |-> call.eq.d % n, modu |-> n])

\* the product of the values s[i], i in S, of type T, without wrapping
RECURSIVE ExactProduct(_, _, _)
ExactProduct(T, s, S) ==
    IF S = {} THEN lit(T, 1)
    ELSE LET i == CHOOSE j \in S : TRUE
         IN  IF Native(T) THEN s[i] * ExactProduct(T, s, S \ {i})
             ELSE T.W.mul[s[i], ExactProduct(T, s, S \ {i})]

\* factorize() has returned, on the struct of a Factors call
Factorized == pc = "factorized" /\ call.op = "Factors"

\* C6: after factorize() on n >= 2 every entry of `factors` is a prime
\* number (one of the primes n was multiplied from) and the entries are in
\* ascending order.
C6_FactorsArePrimesAscending ==
    Factorized =>
        /\ \A i \in 1..Len(self.factors) : self.factors[i] \in Range(call.primes)
        /\ \A i \in 1..(Len(self.factors) - 1) :
              le(CallT, self.factors[i], self.factors[i + 1])

\* p^k without wrapping
RECURSIVE ExactPower(_, _, _)
ExactPower(T, p, k) ==
    IF k = 0 THEN lit(T, 1)
    ELSE IF Native(T) THEN p * ExactPower(T, p, k - 1)
    ELSE T.W.mul[p, ExactPower(T, p, k - 1)]

C8_FactorListIsDetermined ==
    (Factorized /\ prev_factors.tag = "Some") => self.factors = prev_factors.val

\* the first elements of the pairs of a sequence
Firsts(s) == [i \in 1..Len(s) |-> s[i][1]]

\* C20: in every state of a worker race started on the number N the shared
\* residual times the product of the recorded factors is N.
C20_ResidualTimesFactorsIsNum ==
    InRace =>
        ExactProduct(CallT, Append(Firsts(maybe_factors.factors), maybe_factors.num),
                     1..(Len(maybe_factors.factors) + 1)) = num

\* spawn_workers holds the guard for its snapshot: the residual it is about to
\* return
Snapshot == pc = "snapshot"
returned_num == IF completed.val THEN lit(CallT, 1) ELSE maybe_factors.num

\* C21: when spawn_workers, started on N, returns the residual r and the
\* factor list F, every entry of F divides N and the entries at some set of
\* places of F multiply to N / r: their product times r is N.
C21_NoPrimeFactorIsLost ==
    Snapshot =>
        LET F == Firsts(maybe_factors.factors)
        IN  /\ \A i \in 1..Len(F) : rem(CallT, num, F[i]) = lit(CallT, 0)
            /\ \E S \in SUBSET (1..Len(F)) :
                  ExactProduct(CallT, Append(F, returned_num), S \cup {Len(F) + 1}) = num

\* spawn_workers returns a list in which both workers recorded the same prime
\* of a u32 number
C21_Witness ==
    /\ Snapshot
    /\ call.T = U32
    /\ \E i, j \in 1..Len(maybe_factors.factors) :
          i < j /\ maybe_factors.factors[i][1] = maybe_factors.factors[j][1]
    /\ returned_num = lit(CallT, 1)

\* C22: factorize() terminates for every n >= 2, whatever the curves yield
\* and however the workers are scheduled: a call of factorize() that has
\* started returns.
C22_FactorizeTerminates ==
    (pc = "factorize" /\ call.op = "Factors") ~> (pc = "factorized")

\* C23: spawn_workers returns only after it has received a signal; it copies
\* the factor list while it holds the guard, and the number it returns is the
\* shared residual of that moment; it returns 1 only if the shared residual
\* is 1 then.
C23_ReturnIsTheSnapshot ==
    [][(pc = "snapshot" /\ pc' = "ec_factors") =>
          /\ completed.tag = "Some"
          /\ mutex = {MainThread}
          /\ ec_factors' = maybe_factors.factors
          /\ num' = maybe_factors.num
          /\ (num' = lit(CallT, 1) => maybe_factors.num = lit(CallT, 1))]_vars

\* spawn_workers has just returned, from a race on a u32 number, the residual
\* 1 and three factors
C23_Witness ==
    /\ pc = "ec_factors"
    /\ call.op = "Factors"
    /\ call.T = U32
    /\ frames = <<>>
    /\ num = lit(CallT, 1)
    /\ Len(ec_factors) = 3

\* C24: once the shared residual is 1 it stays 1 and no further factor is
\* recorded: a worker that takes the lock then leaves the shared record as
\* it is, takes 1 as its own num and so ends its loop.
C24_DoneStateIsFinal ==
    [][(InRace /\ InRace' /\ maybe_factors.num = lit(CallT, 1)) =>
          /\ maybe_factors' = maybe_factors
          /\ \A w \in DOMAIN workers :
                (workers[w].pc = "locked" /\ workers'[w].pc # "locked") =>
                    workers'[w].num = lit(CallT, 1)]_vars

\* C25: every activation of the worker race ends: under fair scheduling a
\* spawn_workers that has started its workers receives a signal and returns.
C25_RaceEnds == (pc = "recv") ~> (pc = "ec_factors")

\* spawn_workers has just returned from a race in which no curve gave a
\* factor and the wheel worker recorded nothing: the residual is the number
\* the race was started on
C25_Witness ==
    /\ pc = "ec_factors"
    /\ call.op = "Factors"
    /\ frames = <<>>
    /\ ec_factors = <<>>
    /\ self.factors = <<>>
    /\ num = call.num

\* C26: every pair with sure_prime = true in the shared factor list, and in
\* the list factorize_elliptic goes through, holds a prime number: one of
\* the primes the number of the call was multiplied from.
C26_SurePrimesArePrime ==
    /\ InRace => \A i \in 1..Len(maybe_factors.factors) :
                    maybe_factors.factors[i][2] =>
                        maybe_factors.factors[i][1] \in Range(call.primes)
    /\ \A i \in 1..Len(ec_factors) :
          ec_factors[i][2] => ec_factors[i][1] \in Range(call.primes)

\* the wheel worker and an elliptic worker have each recorded a different
\* number as a sure prime
C26_Witness ==
    /\ InRace
    /\ \E i, j \in 1..Len(maybe_factors.factors) :
          /\ maybe_factors.factors[i][2]
          /\ maybe_factors.factors[j][2]
          /\ maybe_factors.factors[i][1] # maybe_factors.factors[j][1]

\* C27: prune_duplicate_factors, on a list of primes of n that holds every
\* prime p of n at least as often as p divides n, leaves the primes of n in
\* ascending order, each as often as it divides n.
C27_PruneLeavesThePrimes ==
    Returned("prune_duplicate_factors") => result = Some(prime_list(call.num, 2))

\* prune_duplicate_factors has removed two further copies from the list of
\* 12 = 2 * 2 * 3
C27_Witness ==
    /\ Returned("prune_duplicate_factors")
    /\ call.num = 12
    /\ call.factors = <<3, 2, 2, 3, 2>>
    /\ result = Some(<<2, 2, 3>>)

\* C28: no worker holds the lock while it runs a curve computation: a worker
\* holds the guard only in its locked section, where it reads the shared
\* residual and appends factors, and never at the head of its loop, where an
\* elliptic worker computes its curve.
C28_NoLockAcrossCurveStep ==
    InRace =>
        /\ Cardinality(mutex) <= 1
        /\ \A w \in DOMAIN workers :
              /\ w \in mutex => workers[w].pc = "locked"
              /\ (w > 0 /\ workers[w].pc = "run") => w \notin mutex

\* an elliptic worker that has been through its locked section once is at its
\* next curve step while the wheel worker holds the lock
C28_Witness ==
    /\ InRace
    /\ mutex = {0}
    /\ \E w \in DOMAIN workers :
          /\ w > 0
          /\ workers[w].pc = "run"
          /\ workers[w].curve_count = 2
          /\ Len(maybe_factors.factors) > 0

\* C30: exp_mod(base, ex, n) with n >= 2 returns 0 whenever base is 0 modulo n,
\* for every exponent, the exponent 0 included, and returns 1 for the
\* exponent 0 whenever base is not 0 modulo n.
C30_ZeroBaseGivesZero ==
    (Returned("exp_mod") /\ call.modu >= 2) =>
        /\ call.x % call.modu = 0 => result = 0
        /\ (call.y = 0 /\ call.x % call.modu # 0) => result = 1

\* the Legendre symbol (x | p) of a prime p
Legendre(x, p) ==
    IF x % p = 0 THEN 0
    ELSE IF \E y \in 1..(p - 1) : (y * y) % p = x % p THEN 1 ELSE 0 - 1

\* the product of the Legendre symbols of x over a list of primes
RECURSIVE LegendreProduct(_, _)
LegendreProduct(x, primes) ==
    IF primes = <<>> THEN 1
    ELSE Legendre(x, Head(primes)) * LegendreProduct(x, Tail(primes))

\* the Jacobi symbol (x | n) of an odd n >= 1
Jacobi(x, n) == LegendreProduct(x, prime_list(n, 2))

\* C29: jacobi_symbol(x, n) returns the Jacobi symbol (x | n), one of -1, 0
\* and 1, for every odd n >= 1 and every x of the width, the even x with the
\* most significant bit set included, and returns 0 exactly when
\* gcd(x, n) > 1.
C29_JacobiSymbolIsExact ==
    (Returned("jacobi_symbol") /\ call.n % 2 = 1) =>
        /\ result \in {0 - 1, 0, 1}
        /\ result = Jacobi(call.x, call.n)
        /\ result = 0 <=> Gcd(call.x, call.n) > 1

=============================================================================
